---------------------------- MODULE Spec2Model ----------------------------
(***************************************************************************)
(* Model of the eISCP client engine of onkyo-custom (media_player.py):     *)
(* the frame codec (ISCPMessage, eISCPPacket), the wire -> command         *)
(* translation (iscp_to_command), the streaming protocol handler (AVR)     *)
(* and the connection manager (Connection).                                *)
(*                                                                         *)
(* Text is a sequence of Unicode code points, bytes are a sequence of      *)
(* integers 0..255; str.encode / bytes.decode are the UTF-8 conversions.   *)
(***************************************************************************)
EXTENDS Integers, Sequences, FiniteSets, TLC

(***************************************************************************)
(* Bounds of the model.                                                    *)
(***************************************************************************)
MaxFrames == 2          \* frames the receiver puts on the wire
MaxRaises == 1          \* data_received calls that end in an exception
MaxFailures == 4        \* failed TCP connect attempts
MaxLosses == 1          \* connections lost by the peer or the network
MaxApiCalls == 2        \* halt/resume/close/connect calls that change the state
MaxLoops == 1           \* _reconnect coroutines alive when a loss starts one
MaxTransports == 1      \* TCP transports alive at the same time
MaxSends == 1           \* AVR.command calls
MaxText == 2            \* characters of a message text
MaxIfaces == 2          \* interface addresses that discover iterates over
MaxReplies == 2         \* replies that a discovery session takes up

(***************************************************************************)
(* Text literals.                                                          *)
(***************************************************************************)
\* The characters of the text literals and their code points.
AscChars ==
    <<"!", "+", ",", "-", "0", "1", "2", "3", "4", "5", "6", "7", "8", "9",
     "A", "B", "C", "D", "E", "F", "I", "L", "M", "N", "O", "P", "Q", "R",
     "S", "T", "U", "V", "W", "X", "Y", "Z", "a", "b", "c", "d", "e", "f",
     "g", "h", "i", "j", "k", "l", "m", "n", "o", "p", "q", "r", "s", "t",
     "u", "v", "w", "x", "y", "z", " ", ".", ":", "=", "_", "EOF", "CR",
     "LF", "LQ", "RQ", "/">>

AscCodes ==
    <<33, 43, 44, 45, 48, 49, 50, 51, 52, 53, 54, 55, 56, 57, 65, 66, 67, 68,
     69, 70, 73, 76, 77, 78, 79, 80, 81, 82, 83, 84, 85, 86, 87, 88, 89, 90,
     97, 98, 99, 100, 101, 102, 103, 104, 105, 106, 107, 108, 109, 110, 111,
     112, 113, 114, 115, 116, 117, 118, 119, 120, 121, 122, 32, 46, 58, 61,
     95, 26, 13, 10, 8220, 8221, 47>>

Asc ==
    [c \in {AscChars[i] : i \in DOMAIN AscChars} |->
        AscCodes[CHOOSE i \in DOMAIN AscChars : AscChars[i] = c]]

T(s) == [i \in DOMAIN s |-> Asc[s[i]]]

RECURSIVE Flatten(_)
Flatten(ss) == IF ss = <<>> THEN <<>> ELSE Head(ss) \o Flatten(Tail(ss))

(***************************************************************************)
(* UTF-8: str.encode("utf-8") and bytes.decode() (strict).                 *)
(***************************************************************************)
Utf8EncodeChar(cp) ==
    IF cp < 128 THEN <<cp>>
    ELSE IF cp < 2048 THEN <<192 + (cp \div 64), 128 + (cp % 64)>>
    ELSE IF cp < 65536 THEN
        <<224 + (cp \div 4096), 128 + ((cp \div 64) % 64), 128 + (cp % 64)>>
    ELSE <<240 + (cp \div 262144), 128 + ((cp \div 4096) % 64),
           128 + ((cp \div 64) % 64), 128 + (cp % 64)>>

Utf8Encode(text) == Flatten([i \in DOMAIN text |-> Utf8EncodeChar(text[i])])

IsCont(b) == b >= 128 /\ b <= 191

\* Length of the well-formed UTF-8 sequence at the head of bs, 0 when the
\* head is not a well-formed sequence.
Utf8SeqLen(bs) ==
    LET b1 == bs[1]
        n == Len(bs)
    IN  IF b1 < 128 THEN 1
        ELSE IF b1 >= 194 /\ b1 <= 223
            THEN IF n >= 2 /\ IsCont(bs[2]) THEN 2 ELSE 0
        ELSE IF b1 >= 224 /\ b1 <= 239
            THEN IF /\ n >= 3 /\ IsCont(bs[2]) /\ IsCont(bs[3])
                    /\ (b1 = 224 => bs[2] >= 160)
                    /\ (b1 = 237 => bs[2] <= 159)
                 THEN 3 ELSE 0
        ELSE IF b1 >= 240 /\ b1 <= 244
            THEN IF /\ n >= 4 /\ IsCont(bs[2]) /\ IsCont(bs[3]) /\ IsCont(bs[4])
                    /\ (b1 = 240 => bs[2] >= 144)
                    /\ (b1 = 244 => bs[2] <= 143)
                 THEN 4 ELSE 0
        ELSE 0

Utf8CodePoint(bs, k) ==
    IF k = 1 THEN bs[1]
    ELSE IF k = 2 THEN (bs[1] - 192) * 64 + (bs[2] - 128)
    ELSE IF k = 3 THEN (bs[1] - 224) * 4096 + (bs[2] - 128) * 64 + (bs[3] - 128)
    ELSE (bs[1] - 240) * 262144 + (bs[2] - 128) * 4096
         + (bs[3] - 128) * 64 + (bs[4] - 128)

\* bytes.decode(): [ok |-> FALSE] stands for UnicodeDecodeError.  Bytes
\* below 128 are their own code points, so an all-ASCII input decodes to
\* itself.
RECURSIVE Utf8Decode(_)
Utf8Decode(bs) ==
    IF \A i \in DOMAIN bs : bs[i] < 128 THEN [ok |-> TRUE, text |-> bs]
    ELSE LET k == Utf8SeqLen(bs)
         IN  IF k = 0 THEN [ok |-> FALSE, text |-> <<>>]
             ELSE LET rest == Utf8Decode(SubSeq(bs, k + 1, Len(bs)))
                  IN  IF rest.ok
                      THEN [ok |-> TRUE,
                            text |-> <<Utf8CodePoint(bs, k)>> \o rest.text]
                      ELSE rest

(***************************************************************************)
(* ISCPMessage.parse: [ok |-> FALSE] stands for the AssertionError.        *)
(***************************************************************************)
EOF == 26
TERMINATORS == {10, 13}

ISCPMessageParse(data) ==
    IF Len(data) < 2 \/ SubSeq(data, 1, 2) # T(<<"!", "1">>)
    THEN [ok |-> FALSE, text |-> <<>>]
    ELSE LET n == Len(data)
             off1 == IF data[n] \in TERMINATORS THEN 2 ELSE 1
             off == IF off1 = 2 /\ data[n - 1] \in TERMINATORS THEN 3 ELSE off1
             \* data[eof_offset] with eof_offset = -off
             pos == n + 1 - off
         IN  IF data[pos] # EOF
             THEN [ok |-> FALSE, text |-> <<>>]
             ELSE [ok |-> TRUE, text |-> SubSeq(data, 3, pos - 1)]

(***************************************************************************)
(* eISCPPacket.parse_header: struct "! 4s I I b 3s" over 16 bytes.         *)
(***************************************************************************)
\* Variant reading the integer in little-endian order.
LE32(bs) == ((bs[4] * 256 + bs[3]) * 256 + bs[2]) * 256 + bs[1]

BE32(bs) == ((bs[1] * 256 + bs[2]) * 256 + bs[3]) * 256 + bs[4]

ToBE32(n) == <<(n \div 16777216) % 256, (n \div 65536) % 256,
               (n \div 256) % 256, n % 256>>

MAGIC == T(<<"I", "S", "C", "P">>)
HEADER_SIZE == 16

ParseHeader(bs) ==
    IF Len(bs) # 16 THEN [ok |-> FALSE, header_size |-> 0, data_size |-> 0]
    ELSE LET magic == Utf8Decode(SubSeq(bs, 1, 4))
             header_size == BE32(SubSeq(bs, 5, 8))
             data_size == BE32(SubSeq(bs, 9, 12))
             reserved == Utf8Decode(SubSeq(bs, 14, 16))
         IN  IF /\ magic.ok
                /\ reserved.ok
                /\ magic.text = MAGIC
                /\ header_size = HEADER_SIZE
             THEN [ok |-> TRUE, header_size |-> header_size,
                   data_size |-> data_size]
             ELSE [ok |-> FALSE, header_size |-> 0, data_size |-> 0]

(***************************************************************************)
(* Command registry: entries of COMMANDS, zones in the table's order.      *)
(* A value is keyed by a wire text or by a numeric range (lo, hi); names   *)
(* is the tuple of its names: one element for a name that is a text, the   *)
(* elements of a name that is a tuple, <<>> for None.  NTC is declared in  *)
(* zone2 and again, as another command, in dock.                           *)
(***************************************************************************)
Val(key, names) ==
    [isRange |-> FALSE, key |-> T(key), lo |-> 0, hi |-> 0, names |-> names]

Rng(lo, hi, names) ==
    [isRange |-> TRUE, key |-> <<>>, lo |-> lo, hi |-> hi, names |-> names]

PowerValues ==
    << Val(<<"0", "0">>, <<"standby">>),
       Val(<<"0", "1">>, <<"on">>),
       Val(<<"Q", "S", "T", "N">>, <<"query">>) >>

LevelValues ==
    << Val(<<"U", "P">>, <<"level-up">>),
       Val(<<"D", "O", "W", "N">>, <<"level-down">>),
       Val(<<"U", "P", "1">>, <<"level-up-1db-step">>),
       Val(<<"D", "O", "W", "N", "1">>, <<"level-down-1db-step">>),
       Val(<<"Q", "S", "T", "N">>, <<"query">>) >>

COMMANDS ==
    << [zone |-> "main", cmds |->
         << [mn |-> T(<<"P", "W", "R">>), name |-> "system-power", values |->
              << Val(<<"0", "0">>, <<"standby", "off">>),
                 Val(<<"0", "1">>, <<"on">>),
                 Val(<<"A", "L", "L">>, <<"standby-all">>),
                 Val(<<"Q", "S", "T", "N">>, <<"query">>) >>],
            [mn |-> T(<<"M", "V", "L">>), name |-> "master-volume", values |->
              << Rng(0, 200, <<>>),
                 Rng(0, 100, <<"vol-0-100", "">>),
                 Rng(0, 80, <<>>),
                 Rng(0, 50, <<"vol-0-50", "">>) >> \o LevelValues],
            [mn |-> T(<<"C", "T", "L">>), name |-> "center-temporary-level",
             values |->
              << Rng(0 - 24, 24, <<"12-0db-0-0db-12-0db">>),
                 Rng(0 - 12, 12, <<"12db-0db-12db">>),
                 Val(<<"LQ", "U", "P", "RQ">>, <<"up">>),
                 Val(<<"LQ", "D", "O", "W", "N", "RQ">>, <<"down">>),
                 Val(<<"Q", "S", "T", "N">>, <<"query">>) >>],
            [mn |-> T(<<"S", "P", "D">>), name |-> "speaker-distance",
             values |->
              << Val(<<"M", "u", "a", "a", "a", "b", "b",
                      "b", "c", "c", "c", "d", "d", "d",
                      "e", "e", "e", "f", "f", "f", "g",
                      "g", "g", "h", "h", "h", "i", "i",
                      "i", "j", "j", "j", "k", "k", "k",
                      "l", "l", "l", "m", "m", "m">>,
                     <<>>),
                 Val(<<"Q", "S", "T", "N">>, <<"query">>) >>] >>],
       [zone |-> "zone2", cmds |->
         << [mn |-> T(<<"Z", "P", "W">>), name |-> "power",
             values |-> PowerValues],
            [mn |-> T(<<"Z", "V", "L">>), name |-> "volume", values |->
              << Rng(0, 200, <<>>),
                 Rng(0, 100, <<"vol-0-100">>),
                 Rng(0, 80, <<>>) >> \o LevelValues],
            [mn |-> T(<<"N", "T", "C">>), name |-> "net-tune-network",
             values |->
              << Val(<<"P", "L", "A", "Y", "z">>, <<"playz">>),
                 Val(<<"S", "T", "O", "P", "z">>, <<"stopz">>),
                 Val(<<"P", "A", "U", "S", "E", "z">>, <<"pausez">>),
                 Val(<<"T", "R", "U", "P", "z">>, <<"trupz">>),
                 Val(<<"T", "R", "D", "N", "z">>, <<"trdnz">>) >>] >>],
       [zone |-> "zone3", cmds |->
         << [mn |-> T(<<"P", "W", "3">>), name |-> "power",
             values |-> PowerValues] >>],
       [zone |-> "zone4", cmds |->
         << [mn |-> T(<<"P", "W", "4">>), name |-> "power",
             values |-> PowerValues] >>],
       [zone |-> "dock", cmds |->
         << [mn |-> T(<<"N", "T", "C">>), name |-> "network-usb", values |->
              << Val(<<"P", "L", "A", "Y">>, <<"play">>),
                 Val(<<"S", "T", "O", "P">>, <<"stop">>),
                 Val(<<"P", "A", "U", "S", "E">>, <<"pause">>),
                 Val(<<"U", "P">>, <<"up">>),
                 Val(<<"D", "O", "W", "N">>, <<"down">>) >>] >>] >>

(***************************************************************************)
(* iscp_to_command: wire text -> (zone, command name, value).              *)
(* A value is a name tuple, an integer, or raw text split on commas.       *)
(***************************************************************************)
NamedValue(names) == [t |-> "name", names |-> names, n |-> 0, parts |-> <<>>]
IntValue(n) == [t |-> "int", names |-> <<>>, n |-> n, parts |-> <<>>]
RawValue(parts) == [t |-> "raw", names |-> <<>>, n |-> 0, parts |-> parts]

NoValue == [t |-> "none", names |-> <<>>, n |-> 0, parts |-> <<>>]
NoMessage == [zone |-> "", name |-> "", value |-> NoValue]

\* The result of a call: the message returned or the exception raised.
Returns(msg) == [ok |-> TRUE, err |-> "", msg |-> msg]
Fails(err) == [ok |-> FALSE, err |-> err, msg |-> NoMessage]

HexDigit(c) ==
    IF c >= 48 /\ c <= 57 THEN c - 48
    ELSE IF c >= 65 /\ c <= 70 THEN c - 55
    ELSE IF c >= 97 /\ c <= 102 THEN c - 87
    ELSE -1

\* re.match("[+-]?[0-9a-f]+$", args, re.IGNORECASE): "$" also matches
\* before one trailing line feed.
HexBody(args) ==
    LET a == IF args # <<>> /\ args[Len(args)] = 10
             THEN SubSeq(args, 1, Len(args) - 1) ELSE args
    IN  IF a # <<>> /\ a[1] \in {43, 45} THEN Tail(a) ELSE a

HexMatch(args) ==
    LET b == HexBody(args)
    IN  b # <<>> /\ \A i \in DOMAIN b : HexDigit(b[i]) >= 0

\* Variant of the conversion that reads the digits in base ten.
RECURSIVE HexNatBaseTen(_)
HexNatBaseTen(ds) ==
    IF ds = <<>> THEN 0
    ELSE HexNatBaseTen(SubSeq(ds, 1, Len(ds) - 1)) * 10 + HexDigit(ds[Len(ds)])

RECURSIVE HexNat(_)
HexNat(ds) ==
    IF ds = <<>> THEN 0
    ELSE HexNat(SubSeq(ds, 1, Len(ds) - 1)) * 16 + HexDigit(ds[Len(ds)])

\* int(args, 16)
HexInt(args) ==
    IF args[1] = 45 THEN 0 - HexNat(HexBody(args)) ELSE HexNat(HexBody(args))

\* args.split(",")
RECURSIVE SplitComma(_)
SplitComma(s) ==
    IF \A i \in DOMAIN s : s[i] # 44 THEN <<s>>
    ELSE LET k == CHOOSE i \in DOMAIN s :
                     s[i] = 44 /\ \A j \in 1..(i - 1) : s[j] # 44
         IN  <<SubSeq(s, 1, k - 1)>> \o SplitComma(SubSeq(s, k + 1, Len(s)))

FindCmd(cmds, command) ==
    LET hits == {i \in DOMAIN cmds : cmds[i].mn = command}
    IN  IF hits = {} THEN 0 ELSE CHOOSE i \in hits : TRUE

FindValue(values, args) ==
    LET hits == {i \in DOMAIN values :
                    ~values[i].isRange /\ values[i].key = args}
    IN  IF hits = {} THEN 0 ELSE CHOOSE i \in hits : TRUE

\* Variant of the value lookup that does not consult the declared values.
CommandValueUndeclared(cmd, args) ==
    IF HexMatch(args) THEN IntValue(HexInt(args))
    ELSE RawValue(SplitComma(args))

\* Variant of the value lookup that returns raw text without splitting it.
CommandValueUnsplit(cmd, args) ==
    LET v == FindValue(cmd.values, args)
    IN  IF v # 0 THEN NamedValue(cmd.values[v].names)
        ELSE IF HexMatch(args) THEN IntValue(HexInt(args))
        ELSE RawValue(<<args>>)

\* Variant of the value lookup that returns the first name of a value.
CommandValueFirstName(cmd, args) ==
    LET v == FindValue(cmd.values, args)
    IN  IF v # 0 THEN NamedValue(SubSeq(cmd.values[v].names, 1, 1))
        ELSE IF HexMatch(args) THEN IntValue(HexInt(args))
        ELSE RawValue(SplitComma(args))

CommandValue(cmd, args) ==
    LET v == FindValue(cmd.values, args)
    IN  IF v # 0 THEN NamedValue(cmd.values[v].names)
        ELSE IF HexMatch(args) THEN IntValue(HexInt(args))
        ELSE RawValue(SplitComma(args))

\* '"," in name' raises TypeError when the name of the declared value is
\* None.
NameIsNone(cmd, args) ==
    LET v == FindValue(cmd.values, args)
    IN  v # 0 /\ cmd.values[v].names = <<>>

\* The answer of the zone whose command cmd has the mnemonic of the message.
ZoneAnswer(zone, cmd, args) ==
    IF NameIsNone(cmd, args) THEN Fails("TypeError")
    ELSE Returns([zone |-> zone, name |-> cmd.name,
                  value |-> CommandValue(cmd, args)])

\* The mnemonic and the remainder of a message.
Mnemonic(iscp_message) ==
    SubSeq(iscp_message, 1,
           IF Len(iscp_message) < 3 THEN Len(iscp_message) ELSE 3)

Remainder(iscp_message) == SubSeq(iscp_message, 4, Len(iscp_message))

\* Variant of the scan that passes over a zone whose command does not
\* declare the remainder while a later zone declares the mnemonic.
RECURSIVE IscpScanDeclaring(_, _)
IscpScanDeclaring(zones, iscp_message) ==
    IF zones = <<>> THEN Fails("ValueError")
    ELSE LET c == FindCmd(Head(zones).cmds, Mnemonic(iscp_message))
             later == IscpScanDeclaring(Tail(zones), iscp_message)
         IN  IF c = 0 THEN later
             ELSE IF FindValue(Head(zones).cmds[c].values,
                               Remainder(iscp_message)) = 0 /\ later.ok
             THEN later
             ELSE ZoneAnswer(Head(zones).zone, Head(zones).cmds[c],
                             Remainder(iscp_message))

\* The loop over the zones that are left; the for ... else branch raises
\* ValueError.
RECURSIVE IscpScanZones(_, _)
IscpScanZones(zones, iscp_message) ==
    IF zones = <<>> THEN Fails("ValueError")
    ELSE LET c == FindCmd(Head(zones).cmds, Mnemonic(iscp_message))
         IN  IF c = 0 THEN IscpScanZones(Tail(zones), iscp_message)
             ELSE ZoneAnswer(Head(zones).zone, Head(zones).cmds[c],
                             Remainder(iscp_message))

\* Variant of the translation that consults later zones.
IscpToCommandDeclaring(iscp_message) ==
    IscpScanDeclaring(COMMANDS, iscp_message)

IscpToCommand(iscp_message) == IscpScanZones(COMMANDS, iscp_message)

(***************************************************************************)
(* Text operations of command_to_iscp.                                     *)
(***************************************************************************)
\* str.lower() on the letters A-Z.
Lower(s) == [i \in DOMAIN s |-> IF s[i] >= 65 /\ s[i] <= 90 THEN s[i] + 32
                                ELSE s[i]]

Whitespace == {9, 10, 11, 12, 13, 28, 29, 30, 31, 32}

\* str.strip()
Strip(s) ==
    LET keep == {i \in DOMAIN s : s[i] \notin Whitespace}
    IN  IF keep = {} THEN <<>>
        ELSE SubSeq(s, CHOOSE i \in keep : \A j \in keep : i <= j,
                       CHOOSE i \in keep : \A j \in keep : i >= j)

\* norm = lambda s: s.strip().lower()
Norm(s) == Lower(Strip(s))

\* re.split("[<seps>]", s): the pieces between every separator.
RECURSIVE SplitOn(_, _)
SplitOn(seps, s) ==
    IF \A i \in DOMAIN s : s[i] \notin seps THEN <<s>>
    ELSE LET k == CHOOSE i \in DOMAIN s :
                     s[i] \in seps /\ \A j \in 1..(i - 1) : s[j] \notin seps
         IN  <<SubSeq(s, 1, k - 1)>> \o SplitOn(seps, SubSeq(s, k + 1, Len(s)))

\* re.split("[<seps>]", s, 1): split at the first separator only.
SplitFirst(seps, s) ==
    LET k == CHOOSE i \in DOMAIN s :
                 s[i] \in seps /\ \A j \in 1..(i - 1) : s[j] \notin seps
    IN  <<SubSeq(s, 1, k - 1), SubSeq(s, k + 1, Len(s))>>

NormAll(parts) == [i \in DOMAIN parts |-> Norm(parts[i])]

\* Decimal value of a character for which str.isdigit() holds: the ASCII
\* and the Arabic-Indic digits convert with int(); superscript two is a
\* digit for isdigit() and makes int() raise ValueError (-1).
DigitValue(c) ==
    IF c >= 48 /\ c <= 57 THEN c - 48
    ELSE IF c >= 1632 /\ c <= 1641 THEN c - 1632
    ELSE -1

IsDigitChar(c) == DigitValue(c) >= 0 \/ c = 178

\* str.isdigit()
IsDigit(s) == s # <<>> /\ \A i \in DOMAIN s : IsDigitChar(s[i])

\* int(s) for a text of digits that int() accepts
RECURSIVE DecInt(_)
DecInt(ds) ==
    IF ds = <<>> THEN 0
    ELSE DecInt(SubSeq(ds, 1, Len(ds) - 1)) * 10 + DigitValue(ds[Len(ds)])

HexChar(d) == IF d < 10 THEN 48 + d ELSE 55 + d

\* hex(n)[2:].upper() for n >= 0
RECURSIVE HexText(_)
HexText(n) ==
    IF n < 16 THEN <<HexChar(n)>>
    ELSE Append(HexText(n \div 16), HexChar(n % 16))

\* Variant of the hexadecimal argument without the padding.
HexArgUnpadded(n) == HexText(n)

\* hex(n)[2:].zfill(2).upper()
HexArg(n) == IF n < 16 THEN <<48>> \o HexText(n) ELSE HexText(n)

(***************************************************************************)
(* Registry tables of command_to_iscp, entries in the order of the source: *)
(* the zone keys of COMMANDS, COMMAND_MAPPINGS (command name -> mnemonic)  *)
(* and VALUE_MAPPINGS (argument name -> wire value, or a ValueRange).      *)
(***************************************************************************)
ZONES ==
    << T(<<"m", "a", "i", "n">>), T(<<"z", "o", "n", "e", "2">>),
       T(<<"z", "o", "n", "e", "3">>), T(<<"z", "o", "n", "e", "4">>),
       T(<<"d", "o", "c", "k">>) >>

Alias(name, mn) == [name |-> T(name), mn |-> T(mn)]

POWER == <<"p", "o", "w", "e", "r">>
VOLUME == <<"v", "o", "l", "u", "m", "e">>

COMMAND_MAPPINGS ==
    << << Alias(<<"s", "y", "s", "t", "e", "m", "-">> \o POWER, <<"P", "W", "R">>),
          Alias(POWER, <<"P", "W", "R">>),
          Alias(<<"c", "e", "n", "t", "e", "r", "-", "t", "e", "m", "p", "o",
                  "r", "a", "r", "y", "-", "l", "e", "v", "e", "l">>,
                <<"C", "T", "L">>),
          Alias(VOLUME, <<"M", "V", "L">>),
          Alias(<<"m", "a", "s", "t", "e", "r", "-">> \o VOLUME,
                <<"M", "V", "L">>) >>,
       << Alias(POWER, <<"Z", "P", "W">>), Alias(VOLUME, <<"Z", "V", "L">>) >>,
       << Alias(POWER, <<"P", "W", "3">>) >>,
       << Alias(POWER, <<"P", "W", "4">>) >>,
       << >> >>

Named(name, value) ==
    [isRange |-> FALSE, name |-> T(name), value |-> T(value), lo |-> 0, hi |-> 0]

ValueRange(lo, hi) ==
    [isRange |-> TRUE, name |-> <<>>, value |-> <<>>, lo |-> lo, hi |-> hi]

STANDBY == <<"s", "t", "a", "n", "d", "b", "y">>
QUERY == <<"q", "u", "e", "r", "y">>
LEVEL_UP == <<"l", "e", "v", "e", "l", "-", "u", "p">>
LEVEL_DOWN == <<"l", "e", "v", "e", "l", "-", "d", "o", "w", "n">>
DB_STEP == <<"-", "1", "d", "b", "-", "s", "t", "e", "p">>

ZonePowerArgs ==
    << Named(STANDBY, <<"0", "0">>), Named(<<"o", "n">>, <<"0", "1">>),
       Named(QUERY, <<"Q", "S", "T", "N">>) >>

\* VALUE_MAPPINGS[zone]: the entry of each mnemonic of the zone.
VALUE_MAPPINGS ==
    << << [mn |-> T(<<"P", "W", "R">>), args |->
            << Named(STANDBY, <<"0", "0">>),
               Named(<<"o", "n">>, <<"0", "1">>),
               Named(STANDBY \o <<"-", "a", "l", "l">>, <<"A", "L", "L">>),
               Named(<<"o", "f", "f">>, <<"0", "0">>),
               Named(QUERY, <<"Q", "S", "T", "N">>) >>],
          [mn |-> T(<<"M", "V", "L">>), args |->
            << Named(LEVEL_DOWN, <<"D", "O", "W", "N">>),
               Named(LEVEL_UP \o DB_STEP, <<"U", "P", "1">>),
               Named(LEVEL_UP, <<"U", "P">>),
               ValueRange(0, 50),
               Named(LEVEL_DOWN \o DB_STEP, <<"D", "O", "W", "N", "1">>),
               ValueRange(0, 200),
               ValueRange(0, 80),
               Named(QUERY, <<"Q", "S", "T", "N">>),
               ValueRange(0, 100) >>],
          [mn |-> T(<<"C", "T", "L">>), args |->
            << Named(<<"d", "o", "w", "n">>, <<"LQ", "D", "O", "W", "N", "RQ">>),
               ValueRange(0 - 24, 24),
               Named(QUERY, <<"Q", "S", "T", "N">>),
               Named(<<"u", "p">>, <<"LQ", "U", "P", "RQ">>),
               ValueRange(0 - 12, 12) >>] >>,
       << [mn |-> T(<<"Z", "P", "W">>), args |-> ZonePowerArgs],
          [mn |-> T(<<"Z", "V", "L">>), args |->
            << Named(LEVEL_DOWN, <<"D", "O", "W", "N">>),
               Named(LEVEL_UP \o DB_STEP, <<"U", "P", "1">>),
               Named(LEVEL_UP, <<"U", "P">>),
               Named(LEVEL_DOWN \o DB_STEP, <<"D", "O", "W", "N", "1">>),
               ValueRange(0, 80),
               ValueRange(0, 200),
               Named(QUERY, <<"Q", "S", "T", "N">>),
               ValueRange(0, 100) >>] >>,
       << [mn |-> T(<<"P", "W", "3">>), args |-> ZonePowerArgs] >>,
       << [mn |-> T(<<"P", "W", "4">>), args |-> ZonePowerArgs] >>,
       << >> >>

\* int in ValueRange: the range contains its two ends.
InRange(n, r) == r.lo <= n /\ n <= r.hi

\* The argument at position e[3] of the entry of VALUE_MAPPINGS[e[1]] for
\* the mnemonic of the alias at position e[2] of COMMAND_MAPPINGS[e[1]].
RangeAt(e) ==
    VALUE_MAPPINGS[e[1]][CHOOSE k \in DOMAIN VALUE_MAPPINGS[e[1]] :
                            VALUE_MAPPINGS[e[1]][k].mn =
                               COMMAND_MAPPINGS[e[1]][e[2]].mn].args[e[3]]

(***************************************************************************)
(* command_to_iscp(command, arguments, zone).  A Python value passed to it *)
(* is None, a str, a list of str or an int.  The result is the wire text   *)
(* (with the position in VALUE_MAPPINGS of the range that matched, 0 for   *)
(* an alias) or the exception raised.                                      *)
(***************************************************************************)
PyNone == [t |-> "none", s |-> <<>>, items |-> <<>>, n |-> 0]
PyStr(s) == [t |-> "str", s |-> s, items |-> <<>>, n |-> 0]
PyList(items) == [t |-> "list", s |-> <<>>, items |-> items, n |-> 0]
PyInt(n) == [t |-> "int", s |-> <<>>, items |-> <<>>, n |-> n]

Resolved(text, range) ==
    [ok |-> TRUE, err |-> "", text |-> text, range |-> range]

Raises(err) == [ok |-> FALSE, err |-> err, text |-> <<>>, range |-> 0]

\* ZONE_MAPPINGS.get(zone, zone)
ZONE_MAPPINGS(zone) ==
    IF zone = PyNone \/ zone = PyStr(<<>>) THEN PyStr(ZONES[1]) ELSE zone

\* Position of zone among the keys of COMMANDS, 0 when it is not a key.
ZoneIndex(zone) ==
    IF zone.t = "str" /\ \E i \in DOMAIN ZONES : ZONES[i] = zone.s
    THEN CHOOSE i \in DOMAIN ZONES : ZONES[i] = zone.s
    ELSE 0

\* COMMAND_MAPPINGS[group].get(command, command)
CommandPrefix(g, command) ==
    LET hits == {i \in DOMAIN COMMAND_MAPPINGS[g] :
                    COMMAND_MAPPINGS[g][i].name = command}
    IN  IF hits = {} THEN command
        ELSE COMMAND_MAPPINGS[g][CHOOSE i \in hits : TRUE].mn

\* Variant of the selection that takes the last of the positions hits.
LastOf(hits) == CHOOSE i \in hits : \A j \in hits : i >= j

\* The first of the positions hits.
First(hits) == CHOOSE i \in hits : \A j \in hits : i <= j

\* Variant of the argument resolution that accepts a number when the
\* command declares a range, without looking for the number in the range.
ResolveArgumentAnyRange(prefix, args, argument) ==
    LET aliases == {i \in DOMAIN args :
                       ~args[i].isRange /\ args[i].name = argument}
        ranges == {i \in DOMAIN args : args[i].isRange}
        n == DecInt(argument)
    IN  IF aliases # {}
        THEN Resolved(prefix \o args[First(aliases)].value, 0)
        ELSE IF ~IsDigit(argument) \/ ranges = {} THEN Raises("ValueError")
        ELSE IF \E i \in DOMAIN argument : DigitValue(argument[i]) < 0
            THEN Raises("ValueError")
        ELSE Resolved(prefix \o HexArg(n), First(ranges))

\* Steps 1 and 2 of the argument resolution on VALUE_MAPPINGS[group][prefix].
ResolveArgument(prefix, args, argument) ==
    LET aliases == {i \in DOMAIN args :
                       ~args[i].isRange /\ args[i].name = argument}
        ranges == {i \in DOMAIN args : args[i].isRange}
        n == DecInt(argument)
        matching == {i \in ranges : InRange(n, args[i])}
    IN  IF aliases # {}
        THEN Resolved(prefix \o args[First(aliases)].value, 0)
        ELSE IF ~IsDigit(argument) \/ ranges = {} THEN Raises("ValueError")
        ELSE IF \E i \in DOMAIN argument : DigitValue(argument[i]) < 0
            THEN Raises("ValueError")
        ELSE IF matching = {} THEN Raises("ValueError")
        ELSE Resolved(prefix \o HexArg(n), First(matching))

\* From "Find the command in our database" to the return.
ResolveCommand(zone, command, arguments) ==
    LET group == ZONE_MAPPINGS(zone)
        g == ZoneIndex(group)
        prefix == CommandPrefix(g, command)
        known == {i \in DOMAIN VALUE_MAPPINGS[g] :
                     VALUE_MAPPINGS[g][i].mn = prefix}
    IN  IF ZoneIndex(zone) = 0 THEN Raises("ValueError")
        ELSE IF FindCmd(COMMANDS[g].cmds, prefix) = 0 THEN Raises("ValueError")
        \* argument = arguments[0]
        ELSE IF arguments.t \in {"none", "int"} THEN Raises("TypeError")
        ELSE IF arguments.t = "str" /\ arguments.s = <<>>
            THEN Raises("IndexError")
        ELSE IF arguments.t = "list" /\ arguments.items = <<>>
            THEN Raises("IndexError")
        ELSE ResolveArgument(prefix,
                 VALUE_MAPPINGS[g][CHOOSE i \in known : TRUE].args,
                 IF arguments.t = "str" THEN <<arguments.s[1]>>
                 ELSE arguments.items[1])

\* The branch for a command without ":" or "=": parts[:2], parts[3:].
SplitFreeText(parts) ==
    IF Len(parts) >= 3
    THEN [ok |-> TRUE, zone |-> PyStr(parts[1]), command |-> parts[2],
          arguments |-> PyList(SubSeq(parts, 4, Len(parts)))]
    ELSE IF Len(parts) = 2
    THEN [ok |-> TRUE, zone |-> PyStr(ZONES[1]), command |-> parts[1],
          arguments |-> PyList(SubSeq(parts, 2, Len(parts)))]
    ELSE [ok |-> FALSE, zone |-> PyNone, command |-> <<>>, arguments |-> PyNone]

\* The branch for a command with ":" or "=".
SplitAssignment(command) ==
    LET halves == SplitFirst({58, 61}, command)
        parts == NormAll(SplitOn({46, 32}, halves[1]))
    IN  [ok |-> TRUE,
         zone |-> IF Len(parts) = 2 THEN PyStr(parts[1]) ELSE PyStr(ZONES[1]),
         command |-> IF Len(parts) = 2 THEN parts[2] ELSE parts[1],
         arguments |-> PyList(NormAll(SplitOn({32, 44}, halves[2])))]

command_to_iscp(command, arguments, zone) ==
    IF arguments = PyNone /\ zone = PyNone
    THEN LET p == IF \E i \in DOMAIN command : command[i] \in {58, 61}
                  THEN SplitAssignment(command)
                  ELSE SplitFreeText(NormAll(SplitOn({46, 32}, command)))
         IN  IF p.ok THEN ResolveCommand(p.zone, p.command, p.arguments)
             ELSE Raises("ValueError")
    ELSE ResolveCommand(zone, command, arguments)

(***************************************************************************)
(* State.                                                                  *)
(*   Connection: retry_interval (a rational [num, den]), closing, halted,  *)
(*   auto_reconnect, max_retry_interval, unexpected_disconnect.            *)
(*   AVR: buffer, transport (0 is None).                                   *)
(*   Event loop: ready is the FIFO of call_soon callbacks; loops counts    *)
(*   the running _reconnect coroutines by the await they are suspended at; *)
(*   conns is the state of each TCP transport; paused the transports whose *)
(*   reading is paused; created tells that Connection.create has returned. *)
(*   Environment: wire holds the bytes the receiver has sent and the       *)
(*   socket has not delivered yet, frames the frames they were made of.    *)
(*   History: delivered (update_callback calls), last (what the last       *)
(*   data_received call did), slept (back-off sleeps since the last        *)
(*   interval reset), log (counters of observable steps), outage (failed   *)
(*   attempts and disconnect callbacks since the last unexpected           *)
(*   disconnect), written (the packets passed to the write of an open      *)
(*   transport), tx (the command of the last AVR.command call and how the  *)
(*   call ended), applied (the last call of a function of the module: its  *)
(*   argument and what it returned), disc (the session of                  *)
(*   Connection.discover: the interfaces, the position of its loop, the    *)
(*   UDP endpoints and their DiscoveryProtocol.discovered lists, the tasks *)
(*   it scheduled and the discovery_callback invocations per identifier).  *)
(***************************************************************************)
VARIABLES retry_interval, closing, halted, auto_reconnect, max_retry_interval,
          unexpected_disconnect, buffer, transport, ready, loops, conns,
          paused, created, wire, frames, delivered, last, slept, log, outage,
          written, tx, applied, disc

vars == <<retry_interval, closing, halted, auto_reconnect, max_retry_interval,
          unexpected_disconnect, buffer, transport, ready, loops, conns,
          paused, created, wire, frames, delivered, last, slept, log, outage,
          written, tx, applied, disc>>

connVars == <<retry_interval, closing, halted, auto_reconnect,
              max_retry_interval, unexpected_disconnect>>
rxVars == <<buffer, wire, frames, delivered, last>>
txVars == <<written, tx>>

Item(cb, tid, msg) == [cb |-> cb, tid |-> tid, msg |-> msg]
Call(cb) == Item(cb, 0, NoMessage)

(***************************************************************************)
(* Frames the receiver can put on the wire: 16-byte header then payload.   *)
(***************************************************************************)
WireFrame(magic, payload) ==
    Utf8Encode(magic) \o ToBE32(16) \o ToBE32(Len(payload)) \o <<1>>
        \o <<0, 0, 0>> \o payload

Msg(zone, name, value) == [zone |-> zone, name |-> name, value |-> value]

\* kind: "valid" decodes to event; "badheader" has a corrupt header;
\* "badpayload" has a valid header and a payload that does not translate.
FrameKinds ==
    << [kind |-> "valid",
        bytes |-> WireFrame(MAGIC, Utf8Encode(
                    T(<<"!", "1", "P", "W", "R", "0", "1", "EOF", "CR", "LF">>))),
        event |-> Msg("main", "system-power", NamedValue(<<"on">>))],
       [kind |-> "valid",
        bytes |-> WireFrame(MAGIC, Utf8Encode(
                    T(<<"!", "1", "Z", "V", "L", "4", "2", "EOF">>))),
        event |-> Msg("zone2", "volume", IntValue(66))],
       [kind |-> "badheader",
        bytes |-> WireFrame(T(<<"I", "S", "C", "X">>), Utf8Encode(
                    T(<<"!", "1", "P", "W", "R", "0", "0", "EOF">>))),
        event |-> NoMessage],
       [kind |-> "badpayload",
        bytes |-> WireFrame(MAGIC, Utf8Encode(
                    T(<<"!", "1", "X", "X", "X", "0", "1", "EOF">>))),
        event |-> NoMessage] >>

\* Payloads that fail before the translation: bytes that are not UTF-8, a
\* message without the EOF marker, a message without the "!1" prefix.
BadPayloads ==
    { <<33, 49, 255, 26>>,
      Utf8Encode(T(<<"!", "1", "P", "W", "R", "0", "1", "CR">>)),
      Utf8Encode(T(<<"P", "W", "R", "0", "1", "EOF">>)) }

Streams == UNION {[1..n -> DOMAIN FrameKinds] : n \in 1..MaxFrames}

StreamBytes(fs) == Flatten([i \in DOMAIN fs |-> FrameKinds[fs[i]].bytes])

(***************************************************************************)
(* AVR._assemble_buffer on the buffer buf: the buffer left, the messages   *)
(* passed to call_soon(update_callback), and whether an exception left the *)
(* method (parse_header is outside the try block).                         *)
(***************************************************************************)
\* Variant of the decoding that does not require the message envelope.
DecodeFrameLax(data) ==
    LET dec == Utf8Decode(data)
    IN  IF dec.ok THEN IscpToCommand(SubSeq(dec.text, 3, Len(dec.text)))
        ELSE Fails("UnicodeDecodeError")

DecodeFrame(data) ==
    LET dec == Utf8Decode(data)
        parsed == IF dec.ok THEN ISCPMessageParse(dec.text)
                  ELSE [ok |-> FALSE, text |-> <<>>]
    IN  IF parsed.ok THEN IscpToCommand(parsed.text)
        ELSE IF dec.ok THEN Fails("AssertionError")
        ELSE Fails("UnicodeDecodeError")

\* Variant of _assemble_buffer that does not process the data left in the
\* buffer after a frame.
AssembleBufferOnce(buf, out) ==
    IF Len(buf) >= 16
    THEN LET h == ParseHeader(SubSeq(buf, 1, 16))
             size == h.data_size
         IN  IF ~h.ok THEN [buffer |-> buf, out |-> out, raised |-> TRUE]
             ELSE IF Len(buf) - 16 >= size
             THEN LET m == DecodeFrame(SubSeq(buf, 17, 16 + size))
                  IN  [buffer |-> SubSeq(buf, 17 + size, Len(buf)),
                       out |-> IF m.ok THEN Append(out, m.msg) ELSE out,
                       raised |-> FALSE]
             ELSE [buffer |-> buf, out |-> out, raised |-> FALSE]
    ELSE [buffer |-> buf, out |-> out, raised |-> FALSE]

RECURSIVE AssembleBuffer(_, _)
AssembleBuffer(buf, out) ==
    IF Len(buf) >= 16
    THEN LET h == ParseHeader(SubSeq(buf, 1, 16))
             size == h.data_size
         IN  IF ~h.ok THEN [buffer |-> buf, out |-> out, raised |-> TRUE]
             ELSE IF Len(buf) - 16 >= size
             THEN LET m == DecodeFrame(SubSeq(buf, 17, 16 + size))
                      out2 == IF m.ok THEN Append(out, m.msg) ELSE out
                      rest == SubSeq(buf, 17 + size, Len(buf))
                  IN  IF Len(rest) > 0 THEN AssembleBuffer(rest, out2)
                      ELSE [buffer |-> rest, out |-> out2, raised |-> FALSE]
             ELSE [buffer |-> buf, out |-> out, raised |-> FALSE]
    ELSE [buffer |-> buf, out |-> out, raised |-> FALSE]

NoCall == [emitted |-> 0, raised |-> FALSE]

Bump(field) == log' = [log EXCEPT ![field] = @ + 1]

(***************************************************************************)
(* AVR.data_received for the next n bytes of the wire, read by transport t.*)
(* An exception leaving data_received is a fatal error of the transport:   *)
(* the event loop closes it and schedules connection_lost.                 *)
(***************************************************************************)
DataReceived(t, n) ==
    /\ conns[t] = "open"
    /\ t \notin paused
    /\ log.rx_raised < MaxRaises
    /\ n \in 1..Len(wire)
    /\ LET data == SubSeq(wire, 1, n)
           r == IF transport = 0
                THEN [buffer |-> buffer \o data, out |-> <<>>, raised |-> TRUE]
                ELSE AssembleBuffer(buffer \o data, <<>>)
           updates == [i \in DOMAIN r.out |-> Item("proto_update", 0, r.out[i])]
       IN  /\ buffer' = r.buffer
           /\ wire' = SubSeq(wire, n + 1, Len(wire))
           /\ last' = [emitted |-> Len(r.out), raised |-> r.raised]
           /\ IF r.raised
              THEN /\ paused' = IF transport = 0 THEN paused
                                ELSE paused \cup {transport}
                   /\ conns' = [conns EXCEPT ![t] = "closing"]
                   /\ ready' = (ready \o updates)
                                  \o <<Item("connection_lost", t, NoMessage)>>
                   /\ Bump("rx_raised")
              ELSE /\ paused' = paused \ {transport}
                   /\ conns' = conns
                   /\ ready' = ready \o updates
                   /\ log' = log
    /\ UNCHANGED <<connVars, transport, loops, created, frames, delivered,
                   slept, outage>>
    /\ UNCHANGED <<txVars, applied, disc>>

\* Connection.create._update_callback, run by the event loop.
ProtoUpdate ==
    /\ ready # <<>> /\ Head(ready).cb = "proto_update"
    /\ ready' = Append(Tail(ready), Item("user_update", 0, Head(ready).msg))
    /\ UNCHANGED <<connVars, buffer, transport, loops, conns, paused, created,
                   wire, frames, delivered, last, slept, log, outage>>
    /\ UNCHANGED <<txVars, applied, disc>>

\* The collaborator's update_callback(message, host).
UserUpdate ==
    /\ ready # <<>> /\ Head(ready).cb = "user_update"
    /\ ready' = Tail(ready)
    /\ delivered' = Append(delivered, Head(ready).msg)
    /\ UNCHANGED <<connVars, buffer, transport, loops, conns, paused, created,
                   wire, frames, last, slept, log, outage>>
    /\ UNCHANGED <<txVars, applied, disc>>

(***************************************************************************)
(* Retry interval arithmetic on rationals [num, den], den > 0.             *)
(***************************************************************************)
Rat(num, den) == [num |-> num, den |-> den]

RatLeq(a, b) == a.num * b.den <= b.num * a.den

RatLess(a, b) == a.num * b.den < b.num * a.den

\* Connection._reset_retry_interval
ResetRetryInterval == Rat(1, 1)

\* Variant of _increase_retry_interval with the multiplier 2.
IncreaseRetryIntervalDouble(interval, max) ==
    LET grown == Rat(2 * interval.num, interval.den)
    IN  IF RatLeq(Rat(max, 1), grown) THEN Rat(max, 1) ELSE grown

\* Variant of _increase_retry_interval without the cap.
IncreaseRetryIntervalUncapped(interval, max) ==
    Rat(3 * interval.num, 2 * interval.den)

\* Connection._increase_retry_interval: min(max, 1.5 * interval)
IncreaseRetryInterval(interval, max) ==
    LET grown == Rat(3 * interval.num, 2 * interval.den)
    IN  IF RatLeq(Rat(max, 1), grown) THEN Rat(max, 1) ELSE grown

(***************************************************************************)
(* Connection._reconnect.  A coroutine is suspended in create_connection   *)
(* (connecting), in the back-off sleep (backoff), in the sleep of a halted *)
(* manager (haltsleep), not started yet (scheduled), or waiting to be      *)
(* resumed after its connection was established (resuming).                *)
(***************************************************************************)
NoLoops == [scheduled |-> 0, connecting |-> 0, backoff |-> 0, haltsleep |-> 0,
            resuming |-> 0]

LoopCount(l) == l.scheduled + l.connecting + l.backoff + l.haltsleep + l.resuming

\* Variant of the pass that does not look at the halted flag.
EnterLoopUnhalted(l) == [l EXCEPT !.connecting = @ + 1]

\* One pass from "while True" to the first await.
EnterLoop(l) ==
    IF halted THEN [l EXCEPT !.haltsleep = @ + 1]
    ELSE [l EXCEPT !.connecting = @ + 1]

NoOutage == [active |-> FALSE, fails |-> 0, cbs |-> 0]

FreeTransports == {t \in 1..MaxTransports : conns[t] = "none"}

\* create_connection succeeds: the event loop schedules connection_made,
\* the registration of the reader of the socket and then the completion of
\* the waiter the coroutine awaits.
ConnectSucceeds ==
    /\ loops.connecting > 0
    /\ FreeTransports # {}
    /\ LET t == CHOOSE x \in FreeTransports : \A y \in FreeTransports : x <= y
       IN  /\ conns' = [conns EXCEPT ![t] = "connected"]
           /\ ready' = ready \o <<Item("connection_made", t, NoMessage),
                                  Item("waiter", t, NoMessage)>>
    /\ loops' = [loops EXCEPT !.connecting = @ - 1, !.resuming = @ + 1]
    /\ UNCHANGED <<connVars, rxVars, transport, paused, created, slept, log,
                   outage>>
    /\ UNCHANGED <<txVars, applied, disc>>

\* AVR.connection_made
ConnectionMade ==
    /\ ready # <<>> /\ Head(ready).cb = "connection_made"
    /\ transport' = Head(ready).tid
    /\ conns' = [conns EXCEPT ![Head(ready).tid] = "open"]
    /\ ready' = Append(Tail(ready), Call("connect_cb"))
    /\ UNCHANGED <<connVars, rxVars, loops, paused, created, slept, log, outage>>
    /\ UNCHANGED <<txVars, applied, disc>>

Waiter ==
    /\ ready # <<>> /\ Head(ready).cb = "waiter"
    /\ ready' = Append(Tail(ready), Call("loop_connected"))
    /\ UNCHANGED <<connVars, rxVars, transport, loops, conns, paused, created,
                   slept, log, outage>>
    /\ UNCHANGED <<txVars, applied, disc>>

\* _reconnect after create_connection returned: reset the interval, return.
LoopConnected ==
    /\ ready # <<>> /\ Head(ready).cb = "loop_connected"
    /\ ready' = Tail(ready)
    /\ retry_interval' = ResetRetryInterval
    /\ loops' = [loops EXCEPT !.resuming = @ - 1]
    /\ created' = TRUE
    /\ slept' = <<>>
    /\ UNCHANGED <<closing, halted, auto_reconnect, max_retry_interval,
                   unexpected_disconnect, rxVars, transport, conns, paused,
                   log, outage>>
    /\ UNCHANGED <<txVars, applied, disc>>

\* Connection.create._connect_callback
ProtoConnectCb ==
    /\ ready # <<>> /\ Head(ready).cb = "connect_cb"
    /\ unexpected_disconnect' = FALSE
    /\ outage' = NoOutage
    /\ ready' = Append(Tail(ready), Call("user_connect"))
    /\ UNCHANGED <<retry_interval, closing, halted, auto_reconnect,
                   max_retry_interval, rxVars, transport, loops, conns, paused,
                   created, slept, log>>
    /\ UNCHANGED <<txVars, applied, disc>>

\* The collaborator's connect_callback(host).
UserConnect ==
    /\ ready # <<>> /\ Head(ready).cb = "user_connect"
    /\ ready' = Tail(ready)
    /\ UNCHANGED <<connVars, rxVars, transport, loops, conns, paused, created,
                   slept, log, outage>>
    /\ UNCHANGED <<txVars, applied, disc>>

\* Variant of the except branch that leaves the unexpected-disconnect flag
\* set.
ConnectFailsKeepingFlag ==
    /\ loops.connecting > 0
    /\ log.failures < MaxFailures
    /\ unexpected_disconnect' = unexpected_disconnect
    /\ ready' = IF unexpected_disconnect
                THEN Append(ready, Call("user_disconnect")) ELSE ready
    /\ retry_interval' = IncreaseRetryInterval(retry_interval, max_retry_interval)
    /\ slept' = Append(slept, retry_interval')
    /\ loops' = [loops EXCEPT !.connecting = @ - 1, !.backoff = @ + 1]
    /\ outage' = IF outage.active
                 THEN [outage EXCEPT !.fails = @ + 1,
                          !.cbs = IF unexpected_disconnect THEN @ + 1 ELSE @]
                 ELSE outage
    /\ Bump("failures")
    /\ UNCHANGED <<closing, halted, auto_reconnect, max_retry_interval, rxVars,
                   transport, conns, paused, created>>
    /\ UNCHANGED <<txVars, applied, disc>>

\* Variant of the except branch that lets the error leave _reconnect.
ConnectFailsGivingUp ==
    /\ loops.connecting > 0
    /\ log.failures < MaxFailures
    /\ loops' = [loops EXCEPT !.connecting = @ - 1]
    /\ created' = TRUE
    /\ Bump("failures")
    /\ UNCHANGED <<connVars, rxVars, transport, ready, conns, paused, slept,
                   outage>>
    /\ UNCHANGED <<txVars, applied, disc>>

\* create_connection raises OSError: the except branch of _reconnect.
ConnectFails ==
    /\ loops.connecting > 0
    /\ log.failures < MaxFailures
    /\ unexpected_disconnect' = FALSE
    /\ ready' = IF unexpected_disconnect
                THEN Append(ready, Call("user_disconnect")) ELSE ready
    /\ retry_interval' = IncreaseRetryInterval(retry_interval, max_retry_interval)
    /\ slept' = Append(slept, retry_interval')
    /\ loops' = [loops EXCEPT !.connecting = @ - 1, !.backoff = @ + 1]
    /\ outage' = IF outage.active
                 THEN [outage EXCEPT !.fails = @ + 1,
                          !.cbs = IF unexpected_disconnect THEN @ + 1 ELSE @]
                 ELSE outage
    /\ Bump("failures")
    /\ UNCHANGED <<closing, halted, auto_reconnect, max_retry_interval, rxVars,
                   transport, conns, paused, created>>
    /\ UNCHANGED <<txVars, applied, disc>>

\* The back-off sleep ends and the loop runs its next pass.
BackoffWake ==
    /\ loops.backoff > 0
    /\ loops' = EnterLoop([loops EXCEPT !.backoff = @ - 1])
    /\ UNCHANGED <<connVars, rxVars, transport, ready, conns, paused, created,
                   slept, log, outage>>
    /\ UNCHANGED <<txVars, applied, disc>>

\* The 2-second sleep of a halted manager ends and the loop runs its next pass.
HaltWake ==
    /\ loops.haltsleep > 0
    /\ loops' = EnterLoop([loops EXCEPT !.haltsleep = @ - 1])
    /\ UNCHANGED <<connVars, rxVars, transport, ready, conns, paused, created,
                   slept, log, outage>>
    /\ UNCHANGED <<txVars, applied, disc>>

\* The task made by ensure_future(conn._reconnect()) runs its first pass.
TaskStart ==
    /\ ready # <<>> /\ Head(ready).cb = "task_start"
    /\ ready' = Tail(ready)
    /\ loops' = EnterLoop([loops EXCEPT !.scheduled = @ - 1])
    /\ UNCHANGED <<connVars, rxVars, transport, conns, paused, created, slept,
                   log, outage>>
    /\ UNCHANGED <<txVars, applied, disc>>

(***************************************************************************)
(* Loss of a connection.                                                   *)
(***************************************************************************)
\* transport.close(): a transport that is already closing ignores it.
CloseTransport(c, q, t) ==
    IF t # 0 /\ c[t] = "open"
    THEN [conns |-> [c EXCEPT ![t] = "closing"],
          ready |-> Append(q, Item("connection_lost", t, NoMessage))]
    ELSE [conns |-> c, ready |-> q]

\* The peer or the network ends the connection of transport t: the
\* transport notices it when it reads, which it does once its reader is
\* registered, right before the waiter of create_connection completes.
PeerCloses(t) ==
    /\ conns[t] = "open"
    /\ \A k \in DOMAIN ready : ready[k] # Item("waiter", t, NoMessage)
    /\ log.losses < MaxLosses
    /\ conns' = CloseTransport(conns, ready, t).conns
    /\ ready' = CloseTransport(conns, ready, t).ready
    /\ Bump("losses")
    /\ UNCHANGED <<connVars, rxVars, transport, loops, paused, created, slept,
                   outage>>
    /\ UNCHANGED <<txVars, applied, disc>>

\* AVR.connection_lost
ConnectionLost ==
    /\ ready # <<>> /\ Head(ready).cb = "connection_lost"
    /\ transport' = 0
    /\ conns' = [conns EXCEPT ![Head(ready).tid] = "none"]
    /\ paused' = paused \ {Head(ready).tid}
    /\ ready' = Append(Tail(ready), Call("disconnected_cb"))
    /\ UNCHANGED <<connVars, rxVars, loops, created, slept, log, outage>>
    /\ UNCHANGED <<txVars, applied, disc>>

\* Variant of _disconnected_callback that also invokes the disconnect
\* callback when it starts the reconnect loop.
DisconnectedCbNotifying ==
    /\ ready # <<>> /\ Head(ready).cb = "disconnected_cb"
    /\ IF auto_reconnect /\ ~closing
       THEN /\ LoopCount(loops) < MaxLoops
            /\ unexpected_disconnect' = TRUE
            /\ loops' = [loops EXCEPT !.scheduled = @ + 1]
            /\ ready' = Tail(ready) \o <<Call("task_start"),
                                          Call("user_disconnect")>>
            /\ outage' = [active |-> TRUE, fails |-> 0, cbs |-> 0]
       ELSE /\ ready' = Append(Tail(ready), Call("user_disconnect"))
            /\ UNCHANGED <<unexpected_disconnect, loops, outage>>
    /\ UNCHANGED <<retry_interval, closing, halted, auto_reconnect,
                   max_retry_interval, rxVars, transport, conns, paused,
                   created, slept, log>>
    /\ UNCHANGED <<txVars, applied, disc>>

\* Variant of _disconnected_callback that does not read the closing flag.
DisconnectedCbIgnoringClose ==
    /\ ready # <<>> /\ Head(ready).cb = "disconnected_cb"
    /\ IF auto_reconnect
       THEN /\ LoopCount(loops) < MaxLoops
            /\ unexpected_disconnect' = TRUE
            /\ loops' = [loops EXCEPT !.scheduled = @ + 1]
            /\ ready' = Append(Tail(ready), Call("task_start"))
            /\ outage' = [active |-> TRUE, fails |-> 0, cbs |-> 0]
       ELSE /\ ready' = Append(Tail(ready), Call("user_disconnect"))
            /\ UNCHANGED <<unexpected_disconnect, loops, outage>>
    /\ UNCHANGED <<retry_interval, closing, halted, auto_reconnect,
                   max_retry_interval, rxVars, transport, conns, paused,
                   created, slept, log>>
    /\ UNCHANGED <<txVars, applied, disc>>

\* Connection.create._disconnected_callback
DisconnectedCb ==
    /\ ready # <<>> /\ Head(ready).cb = "disconnected_cb"
    /\ IF auto_reconnect /\ ~closing
       THEN /\ LoopCount(loops) < MaxLoops
            /\ unexpected_disconnect' = TRUE
            /\ loops' = [loops EXCEPT !.scheduled = @ + 1]
            /\ ready' = Append(Tail(ready), Call("task_start"))
            /\ outage' = [active |-> TRUE, fails |-> 0, cbs |-> 0]
       ELSE /\ ready' = Append(Tail(ready), Call("user_disconnect"))
            /\ UNCHANGED <<unexpected_disconnect, loops, outage>>
    /\ UNCHANGED <<retry_interval, closing, halted, auto_reconnect,
                   max_retry_interval, rxVars, transport, conns, paused,
                   created, slept, log>>
    /\ UNCHANGED <<txVars, applied, disc>>

\* The collaborator's disconnect_callback(host).
UserDisconnect ==
    /\ ready # <<>> /\ Head(ready).cb = "user_disconnect"
    /\ ready' = Tail(ready)
    /\ UNCHANGED <<connVars, rxVars, transport, loops, conns, paused, created,
                   slept, log, outage>>
    /\ UNCHANGED <<txVars, applied, disc>>

(***************************************************************************)
(* Calls of the collaborator on the Connection that create returned.  The  *)
(* calls that change the state of the manager are counted.                 *)
(***************************************************************************)
ApiCall == created /\ log.api < MaxApiCalls

Counted(changes) == log' = IF changes THEN [log EXCEPT !.api = @ + 1] ELSE log

TransportOpen == transport # 0 /\ conns[transport] = "open"

\* Connection.close
Close ==
    /\ ApiCall
    /\ closing' = TRUE
    /\ conns' = CloseTransport(conns, ready, transport).conns
    /\ ready' = CloseTransport(conns, ready, transport).ready
    /\ Counted(~closing \/ TransportOpen)
    /\ UNCHANGED <<retry_interval, halted, auto_reconnect, max_retry_interval,
                   unexpected_disconnect, rxVars, transport, loops, paused,
                   created, slept, outage>>
    /\ UNCHANGED <<txVars, applied, disc>>

\* Connection.halt
Halt ==
    /\ ApiCall
    /\ halted' = TRUE
    /\ conns' = CloseTransport(conns, ready, transport).conns
    /\ ready' = CloseTransport(conns, ready, transport).ready
    /\ Counted(~halted \/ TransportOpen)
    /\ UNCHANGED <<retry_interval, closing, auto_reconnect, max_retry_interval,
                   unexpected_disconnect, rxVars, transport, loops, paused,
                   created, slept, outage>>
    /\ UNCHANGED <<txVars, applied, disc>>

\* Connection.resume
Resume ==
    /\ ApiCall
    /\ halted' = FALSE
    /\ Counted(halted)
    /\ UNCHANGED <<retry_interval, closing, auto_reconnect, max_retry_interval,
                   unexpected_disconnect, rxVars, transport, ready, loops,
                   conns, paused, created, slept, outage>>
    /\ UNCHANGED <<txVars, applied, disc>>

\* Variant of connect that does not look at the transport.
ConnectAlways ==
    /\ ApiCall
    /\ loops' = EnterLoop(loops)
    /\ Counted(TRUE)
    /\ UNCHANGED <<connVars, rxVars, transport, ready, conns, paused, created,
                   slept, outage>>
    /\ UNCHANGED <<txVars, applied, disc>>

\* Connection.connect: runs _reconnect up to its first await when no
\* transport is attached, whether or not a coroutine of _reconnect is alive.
Connect ==
    /\ ApiCall
    /\ loops' = IF transport = 0 THEN EnterLoop(loops) ELSE loops
    /\ Counted(transport = 0)
    /\ UNCHANGED <<connVars, rxVars, transport, ready, conns, paused, created,
                   slept, outage>>
    /\ UNCHANGED <<txVars, applied, disc>>

(***************************************************************************)
(* The send path: ISCPMessage.__str__, eISCPPacket.__init__ and get_raw,   *)
(* command_to_packet, and AVR.command as Connection.send, update_property  *)
(* and query_property call it (a single text) or a collaborator calls it   *)
(* on the protocol (command, arguments, zone).                             *)
(***************************************************************************)
\* Variant of the message text that ends with the EOF marker.
ISCPMessageStrEof(data) == T(<<"!", "1">>) \o data \o T(<<"EOF">>)

\* str(ISCPMessage(data))
ISCPMessageStr(data) == T(<<"!", "1">>) \o data \o T(<<"CR">>)

\* eISCPPacket(iscp_message).get_raw(): data_size is the number of
\* characters of the message.
eISCPPacket(iscp_message) ==
    Utf8Encode(MAGIC) \o ToBE32(16) \o ToBE32(Len(iscp_message)) \o <<1>>
        \o <<0, 0, 0>> \o Utf8Encode(iscp_message)

command_to_packet(command) == eISCPPacket(ISCPMessageStr(command))

\* str(value) of an int value
RECURSIVE StrInt(_)
StrInt(n) ==
    IF n < 0 THEN <<45>> \o StrInt(0 - n)
    ELSE IF n < 10 THEN <<48 + n>>
    ELSE Append(StrInt(n \div 10), 48 + (n % 10))

\* The text of Connection.update_property: f"{zone}.{propname}={value}"
UpdateProperty(zone, propname, value) ==
    zone \o T(<<".">>) \o propname \o T(<<"=">>) \o StrInt(value)

\* command(command, arguments, zone) and command(text)
Call3(command, arguments, zone) ==
    [command |-> command, arguments |-> arguments, zone |-> zone]

TextCall(command) == Call3(command, PyNone, PyNone)

\* The volumes passed to update_property.
Volumes == <<0, 5, 15, 16, 55, 66, 80, 81, 100, 101, 200, 201, 999>>

VolumeCalls(zone) ==
    [k \in DOMAIN Volumes |->
        TextCall(UpdateProperty(zone, T(VOLUME), Volumes[k]))]

\* The calls of AVR.command that are made.
CommandSpecs ==
    << TextCall(T(<<"p", "o", "w", "e", "r", " ", "o", "n">>)),
       TextCall(T(<<"m", "a", "i", "n", " ", "p", "o", "w", "e", "r", " ", "b", "o", "g", "u", "s">>)),
       TextCall(T(<<"m", "a", "i", "n", ".", "p", "o", "w", "e", "r", "=", "b", "o", "g", "u", "s">>)),
       TextCall(T(<<"b", "o", "g", "u", "s", ".", "p", "o", "w", "e", "r", "=", "o", "n">>)),
       TextCall(T(<<"m", "a", "i", "n", ".", "b", "o", "g", "u", "s", "=", "o", "n">>)),
       TextCall(T(<<"m", "a", "i", "n", ".", "p", "o", "w", "e", "r", "=">>)),
       Call3(T(<<"p", "o", "w", "e", "r">>), PyStr(T(<<"o", "n">>)),
             PyStr(T(<<"m", "a", "i", "n">>))),
       Call3(T(<<"p", "o", "w", "e", "r">>), PyList(<<T(<<"o", "n">>)>>),
             PyStr(T(<<"m", "a", "i", "n">>))),
       Call3(T(<<"p", "o", "w", "e", "r">>), PyNone,
             PyStr(T(<<"m", "a", "i", "n">>))),
       Call3(T(<<"v", "o", "l", "u", "m", "e">>), PyInt(66),
             PyStr(T(<<"z", "o", "n", "e", "2">>))),
       TextCall(T(<<"p", "o", "w", "e", "r", "=", "o", "n">>)),
       TextCall(T(<<"m", "a", "i", "n", ".", "p", "o", "w", "e", "r", "=", "o", "n">>)),
       Call3(T(<<"p", "o", "w", "e", "r">>), PyList(<<T(<<"o", "n">>)>>), PyNone),
       TextCall(T(<<"P", "o", "w", "e", "r", "=", "O", "N">>)),
       TextCall(T(<<"s", "y", "s", "t", "e", "m", "-", "p", "o", "w", "e", "r", "=", "o", "n">>)),
       TextCall(T(<<"s", "y", "s", "t", "e", "m", "_", "p", "o", "w", "e", "r", "=", "o", "n">>)),
       Call3(T(<<"P", "O", "W", "E", "R">>), PyList(<<T(<<"o", "n">>)>>),
             PyStr(T(<<"m", "a", "i", "n">>))) >>
        \o VolumeCalls(ZONES[1]) \o VolumeCalls(ZONES[2])

NoTx == [spec |-> 0, result |-> Raises(""), outcome |-> "none"]

\* Variant of the write that keeps the packet when no open transport is
\* attached.
TransportWriteQueued(t, c, w, packet) == Append(w, packet)

\* self.transport.write(packet): None has no write (the AttributeError is
\* caught), a transport that is closing discards the data.
TransportWrite(t, c, w, packet) ==
    IF t # 0 /\ c[t] = "open" THEN Append(w, packet) ELSE w

\* AVR.command(command, arguments, zone) for the i-th of CommandSpecs.
\* outcome: "rejected" (ValueError caught and logged), "raised" (another
\* exception leaves command), "written", "dropped" (nothing written).
Command(i) ==
    /\ log.sends < MaxSends
    /\ LET c == CommandSpecs[i]
           r == command_to_iscp(c.command, c.arguments, c.zone)
           w == IF r.ok
                THEN TransportWrite(transport, conns, written,
                                    command_to_packet(r.text))
                ELSE written
       IN  /\ written' = w
           /\ tx' = [spec |-> i, result |-> r,
                     outcome |-> IF ~r.ok /\ r.err = "ValueError"
                                 THEN "rejected"
                                 ELSE IF ~r.ok THEN "raised"
                                 ELSE IF w # written THEN "written"
                                 ELSE "dropped"]
    /\ Bump("sends")
    /\ UNCHANGED <<connVars, rxVars, transport, ready, loops, conns, paused,
                   created, slept, outage, applied, disc>>

(***************************************************************************)
(* Calls of the functions of the module by a collaborator.                 *)
(***************************************************************************)
NoHeader == [ok |-> FALSE, header_size |-> 0, data_size |-> 0]

NoResult == Fails("")

NoCommand == Call3(<<>>, PyNone, PyNone)

\* What a call of DiscoveryProtocol.datagram_received did.
Handled(err, discovered, scheduled) ==
    [err |-> err, discovered |-> discovered, scheduled |-> scheduled]

NoHandled == Handled("", <<>>, <<>>)

Applied(fn, text, bytes, header, result) ==
    [fn |-> fn, text |-> text, bytes |-> bytes, header |-> header,
     result |-> result, call |-> NoCommand, wire |-> Raises(""),
     seen |-> <<>>, handled |-> NoHandled]

NoApply == Applied("none", <<>>, <<>>, NoHeader, NoResult)

\* The characters of the message texts: "A", e with acute accent, the euro
\* sign and an emoji take 1, 2, 3 and 4 bytes in UTF-8.
MsgChars == {65, 233, 8364, 128512}

MsgTexts == UNION {[1..n -> MsgChars] : n \in 0..MaxText}

\* eISCPPacket(msg).get_raw()
EncodePacket(msg) ==
    /\ applied' = Applied("eISCPPacket", msg, eISCPPacket(msg), NoHeader,
                          NoResult)
    /\ UNCHANGED <<connVars, rxVars, txVars, transport, ready, loops, conns,
                   paused, created, slept, log, outage, disc>>

\* eISCPPacket.parse_header on the first 16 bytes of the packet made last.
ParseHeaderCall ==
    /\ applied.fn = "eISCPPacket"
    /\ applied' = [applied EXCEPT
                      !.fn = "parse_header",
                      !.header = ParseHeader(SubSeq(applied.bytes, 1, 16))]
    /\ UNCHANGED <<connVars, rxVars, txVars, transport, ready, loops, conns,
                   paused, created, slept, log, outage, disc>>

\* The wire texts: mnemonics declared in one zone, in two zones and in no
\* zone, and a text shorter than a mnemonic, each followed by declared
\* values, hexadecimal numbers with and without sign, and other text with
\* and without commas.
WireMnemonics ==
    { T(<<"P", "W", "R">>), T(<<"M", "V", "L">>), T(<<"Z", "P", "W">>),
      T(<<"N", "T", "C">>), T(<<"S", "P", "D">>), T(<<"X", "X", "X">>),
      T(<<"P", "W">>) }

WireRemainders ==
    { <<>>, T(<<"0", "0">>), T(<<"0", "1">>), T(<<"Q", "S", "T", "N">>),
      T(<<"P", "L", "A", "Y">>), T(<<"P", "L", "A", "Y", "z">>),
      T(<<"1", "F">>), T(<<"-", "1", "F">>), T(<<"+", "a">>), T(<<"z", "z">>),
      T(<<"a", ",", "b">>), T(<<"1", ",", "2">>), T(<<",">>),
      T(<<"U", "P">>), T(<<"1", "F">>) \o T(<<"LF">>),
      COMMANDS[1].cmds[4].values[1].key }

WireTexts == {m \o r : m \in WireMnemonics, r \in WireRemainders}

\* iscp_to_command(text)
IscpToCommandCall(text) ==
    /\ applied' = Applied("iscp_to_command", text, <<>>, NoHeader,
                          IscpToCommand(text))
    /\ UNCHANGED <<connVars, rxVars, txVars, transport, ready, loops, conns,
                   paused, created, slept, log, outage, disc>>

\* The three spellings of one command: "zone command argument",
\* "zone.command=argument" and command(command, [argument], zone).
FreeText(zone, command, argument) ==
    TextCall(zone \o T(<<" ">>) \o command \o T(<<" ">>) \o argument)

Assignment(zone, command, argument) ==
    TextCall(zone \o T(<<".">>) \o command \o T(<<"=">>) \o argument)

Structured(zone, command, argument) ==
    Call3(command, PyList(<<argument>>), PyStr(zone))

\* (zone, command, argument) of the commands that are spelled three ways.
Triples ==
    { <<ZONES[2], T(VOLUME), StrInt(66)>>,
      <<ZONES[1], T(VOLUME), StrInt(5)>>,
      <<ZONES[1], T(POWER), T(<<"o", "n">>)>>,
      <<ZONES[2], T(POWER), T(STANDBY)>>,
      <<ZONES[3], T(POWER), T(QUERY)>> }

SpelledCalls ==
    UNION {{FreeText(t[1], t[2], t[3]), Assignment(t[1], t[2], t[3]),
            Structured(t[1], t[2], t[3])} : t \in Triples}

\* The positions (zone, alias, argument) of the numeric ranges that
\* VALUE_MAPPINGS declares, with the command names of COMMAND_MAPPINGS.
DeclaredRanges ==
    {e \in UNION {UNION {{<<g, a, r>> :
                            r \in DOMAIN VALUE_MAPPINGS[g][
                                     CHOOSE k \in DOMAIN VALUE_MAPPINGS[g] :
                                        VALUE_MAPPINGS[g][k].mn =
                                           COMMAND_MAPPINGS[g][a].mn].args} :
                          a \in DOMAIN COMMAND_MAPPINGS[g]} :
                   g \in DOMAIN COMMAND_MAPPINGS} :
        RangeAt(e).isRange}

\* command(name, [str(n)], zone)
RangeCall(e, n) ==
    Structured(ZONES[e[1]], COMMAND_MAPPINGS[e[1]][e[2]].name, StrInt(n))

RangeCalls ==
    UNION {{RangeCall(e, n) : n \in (RangeAt(e).lo - 1)..(RangeAt(e).hi + 1)} :
           e \in DeclaredRanges}

\* command("main.volume=n"), as update_property writes it.
VolumeText(n) == TextCall(UpdateProperty(ZONES[1], T(VOLUME), n))

FnCalls == SpelledCalls \cup RangeCalls \cup {VolumeText(n) : n \in 0..201}

\* command_to_iscp(call), as the first call that is made.
CommandToIscpCall(call) ==
    /\ applied = NoApply
    /\ applied' = [Applied("command_to_iscp", <<>>, <<>>, NoHeader, NoResult)
                      EXCEPT !.call = call,
                             !.wire = command_to_iscp(call.command,
                                          call.arguments, call.zone)]
    /\ UNCHANGED <<connVars, rxVars, txVars, transport, ready, loops, conns,
                   paused, created, slept, log, outage, disc>>

\* iscp_to_command(command_to_iscp(call)) for a call that returned.
TranslateBack ==
    /\ applied.fn = "command_to_iscp"
    /\ applied.wire.ok
    /\ applied' = [applied EXCEPT
                      !.fn = "iscp_to_command",
                      !.text = applied.wire.text,
                      !.result = IscpToCommand(applied.wire.text)]
    /\ UNCHANGED <<connVars, rxVars, txVars, transport, ready, loops, conns,
                   paused, created, slept, log, outage, disc>>

(***************************************************************************)
(* eISCPPacket.parse and eISCPPacket.parse_info on the bytes of a          *)
(* datagram.  The result tells the exception raised ("" for none), whether *)
(* the pattern of a discovery reply matched and the identifier group.      *)
(***************************************************************************)
\* bytes[:n]
Take(bs, n) == SubSeq(bs, 1, IF Len(bs) < n THEN Len(bs) ELSE n)

\* bytes.decode(errors='replace'), for bytes that hold no truncated
\* sequence: a byte that starts no well-formed sequence becomes U+FFFD.
RECURSIVE DecodeReplace(_)
DecodeReplace(bs) ==
    IF bs = <<>> THEN <<>>
    ELSE LET k == Utf8SeqLen(bs)
         IN  IF k = 0 THEN <<65533>> \o DecodeReplace(Tail(bs))
             ELSE <<Utf8CodePoint(bs, k)>>
                      \o DecodeReplace(SubSeq(bs, k + 1, Len(bs)))

\* The exception of parse_header(bytes[:16]), "" when it returns.
HeaderError(head) ==
    IF Len(head) # 16 THEN "AssertionError"
    ELSE IF ~Utf8Decode(SubSeq(head, 1, 4)).ok
            \/ ~Utf8Decode(SubSeq(head, 14, 16)).ok
        THEN "UnicodeDecodeError"
    ELSE IF ~ParseHeader(head).ok THEN "AssertionError"
    ELSE ""

Parsed(err, data) == [err |-> err, data |-> data]

\* eISCPPacket.parse(bytes)
PacketParse(bs) ==
    LET head == Take(bs, 16)
        h == ParseHeader(head)
        data == DecodeReplace(SubSeq(bs, 17, IF Len(bs) < 16 + h.data_size
                                              THEN Len(bs)
                                              ELSE 16 + h.data_size))
    IN  IF HeaderError(head) # "" THEN Parsed(HeaderError(head), <<>>)
        ELSE IF Len(data) # h.data_size THEN Parsed("AssertionError", <<>>)
        ELSE Parsed("", data)

\* \w and \d for the characters of the datagrams.
IsWord(c) ==
    \/ DigitValue(c) >= 0
    \/ c >= 65 /\ c <= 90
    \/ c >= 97 /\ c <= 122
    \/ c = 95

Info(err, matched, identifier) ==
    [err |-> err, matched |-> matched, identifier |-> identifier]

\* re.match of the reply pattern on t: "!", a digit, "ECN", the model name
\* up to the first "/", five digits, "/", two word characters, "/" and up
\* to 12 characters of one line.
InfoMatch(t) ==
    LET slashes == {i \in DOMAIN t : i >= 6 /\ t[i] = 47}
        s == First(slashes)
        tail == SubSeq(t, s + 10, IF Len(t) < s + 21 THEN Len(t) ELSE s + 21)
        stops == {i \in DOMAIN tail : tail[i] = 10}
    IN  IF /\ Len(t) >= 5
           /\ t[1] = 33
           /\ DigitValue(t[2]) >= 0
           /\ SubSeq(t, 3, 5) = T(<<"E", "C", "N">>)
           /\ slashes # {}
           /\ Len(t) >= s + 9
           /\ \A i \in (s + 1)..(s + 5) : DigitValue(t[i]) >= 0
           /\ t[s + 6] = 47
           /\ IsWord(t[s + 7]) /\ IsWord(t[s + 8])
           /\ t[s + 9] = 47
        THEN Info("", TRUE, IF stops = {} THEN tail
                           ELSE SubSeq(tail, 1, First(stops) - 1))
        ELSE Info("", FALSE, <<>>)

\* eISCPPacket.parse_info(bytes)
ParseInfo(bs) ==
    LET response == PacketParse(bs)
    IN  IF response.err # "" THEN Info(response.err, FALSE, <<>>)
        ELSE InfoMatch(Strip(response.data))

(***************************************************************************)
(* Connection.discover and DiscoveryProtocol.  An interface address has a  *)
(* broadcast address or none ("nobroadcast", which is read only when no    *)
(* host was passed), and create_datagram_endpoint on it succeeds ("ok"),   *)
(* raises PermissionError or raises another OSError (the address cannot be *)
(* bound).  Every address that netifaces lists under AF_INET has "addr".   *)
(***************************************************************************)
IfaceKinds == {"ok", "nobroadcast", "permission", "oserror"}

Ifaces == 1..MaxIfaces

\* Identifiers that discovery replies carry, and source addresses of the
\* datagrams.
Identifiers == {T(<<"A", "1">>), T(<<"A", "2">>)}
Addrs == {1, 2}

\* The reply of a receiver to a probe.
Reply(id) ==
    eISCPPacket(T(<<"!", "1", "E", "C", "N", "T", "X", "/", "6", "0", "1",
                    "2", "8", "/", "D", "X", "/">>) \o id)

XProbe == eISCPPacket(T(<<"!", "x", "E", "C", "N", "Q", "S", "T", "N">>))
PProbe == eISCPPacket(T(<<"!", "p", "E", "C", "N", "Q", "S", "T", "N">>))

\* The datagrams that reach an endpoint: the replies, a packet of another
\* shape, a probe of this or another controller, two bytes, a reply that
\* lost its last byte, and packets with another and with an undecodable
\* magic.
Datagrams ==
    {Reply(id) : id \in Identifiers} \cup
    { eISCPPacket(T(<<"!", "1", "P", "W", "R", "0", "1">>)),
      XProbe,
      T(<<"!", "1">>),
      SubSeq(Reply(T(<<"A", "1">>)), 1, Len(Reply(T(<<"A", "1">>))) - 1),
      T(<<"X">>) \o Tail(XProbe),
      <<255>> \o Tail(XProbe) }

\* parse_info of each of the datagrams.
Infos == [data \in Datagrams |-> ParseInfo(data)]

\* transport.sendto(data, target)
SendTo(data, target) == [data |-> data, target |-> target]

HostTarget == [to |-> "host", iface |-> 0]
BroadcastTarget(i) == [to |-> "broadcast", iface |-> i]

Discovery(kinds, host) ==
    [kinds |-> kinds, host |-> host, pos |-> 1, raised |-> FALSE,
     eps |-> [i \in DOMAIN kinds |-> "none"],
     sent |-> [i \in DOMAIN kinds |-> <<>>],
     closers |-> [i \in DOMAIN kinds |-> "none"],
     discovered |-> [i \in DOMAIN kinds |-> <<>>],
     tasks |-> <<>>, reported |-> [id \in Identifiers |-> 0],
     replies |-> 0]

NoDiscovery == Discovery(<<>>, FALSE)

DiscTask(cb, ep, id) == [cb |-> cb, ep |-> ep, id |-> id]

DiscUnchanged ==
    UNCHANGED <<connVars, rxVars, txVars, transport, ready, loops, conns,
                paused, created, slept, log, outage, applied>>

\* Variant of the broadcast that sends the first packet only.
BroadcastFirstPacket(target) == <<SendTo(XProbe, target)>>

\* DiscoveryProtocol.broadcast_discovery_packet: the sendto calls.
BroadcastDiscoveryPacket(target) ==
    <<SendTo(XProbe, target), SendTo(PProbe, target)>>

\* The pass of discover on interface i: the target, or the skip.
Pass(d, i, closer) ==
    LET kind == d.kinds[i]
        target == IF d.host THEN HostTarget ELSE BroadcastTarget(i)
    IN  IF ~d.host /\ kind = "nobroadcast" THEN [d EXCEPT !.pos = @ + 1]
        ELSE IF kind = "permission"
        THEN [d EXCEPT !.pos = @ + 1, !.eps[i] = "skipped"]
        ELSE IF kind = "oserror"
        THEN [d EXCEPT !.raised = TRUE, !.eps[i] = "failed"]
        ELSE [d EXCEPT !.pos = @ + 1, !.eps[i] = "open",
                       !.sent[i] = BroadcastDiscoveryPacket(target),
                       !.closers[i] = closer]

\* Variant of the pass that does not schedule async_close_delayed.
DiscoverPassUnclosed ==
    /\ ~disc.raised
    /\ disc.pos \in DOMAIN disc.kinds
    /\ disc' = Pass(disc, disc.pos, "none")
    /\ DiscUnchanged

\* One pass of the for loop of Connection.discover, on interface disc.pos:
\* the endpoint is created, connection_made broadcasts the two discovery
\* packets, and async_close_delayed(timeout) is scheduled.
DiscoverPass ==
    /\ ~disc.raised
    /\ disc.pos \in DOMAIN disc.kinds
    /\ disc' = Pass(disc, disc.pos, "sleeping")
    /\ DiscUnchanged

\* The body of datagram_received after info = eISCPPacket.parse_info(data).
HandleInfo(discovered, info) ==
    IF info.err # "" THEN Handled(info.err, discovered, <<>>)
    ELSE IF \/ ~info.matched
            \/ \E k \in DOMAIN discovered : discovered[k] = info.identifier
    THEN Handled("", discovered, <<>>)
    ELSE Handled("", Append(discovered, info.identifier), <<info.identifier>>)

\* DiscoveryProtocol.datagram_received(data, addr) on a protocol whose
\* self.discovered is discovered: the exception that leaves the method
\* ("" when it returns), self.discovered after the call and the
\* identifiers for which discovered_callback was scheduled.  The address is
\* not read when the identifier is looked up; it becomes the host of the
\* Connection that discovered_callback creates.
DatagramHandler(discovered, data) == HandleInfo(discovered, Infos[data])

\* The values of self.discovered of the protocols that are called.
SeenLists ==
    { <<>>, <<T(<<"A", "1">>)>>, <<T(<<"A", "2">>), T(<<"A", "1">>)>> }

\* datagram_received(data, addr) on a protocol with self.discovered = seen.
DatagramReceivedCall(seen, data) ==
    /\ applied' = [Applied("datagram_received", <<>>, data, NoHeader,
                           NoResult)
                      EXCEPT !.seen = seen,
                             !.handled = DatagramHandler(seen, data)]
    /\ UNCHANGED <<connVars, rxVars, txVars, transport, ready, loops, conns,
                   paused, created, slept, log, outage, disc>>

\* The session after the handler of endpoint e ended as h.
AfterDatagram(d, e, h) ==
    [d EXCEPT !.replies = @ + Len(h.scheduled),
              !.discovered[e] = h.discovered,
              !.tasks = @ \o [k \in DOMAIN h.scheduled |->
                                DiscTask("discovered_cb", e, h.scheduled[k])]]

\* datagram_received on the endpoint of interface e.  An exception goes to
\* the exception handler of the event loop and the endpoint stays open.
DatagramReceived(e, data, addr) ==
    /\ disc.eps[e] = "open"
    /\ disc.replies < MaxReplies
    /\ disc' = AfterDatagram(disc, e,
                             DatagramHandler(disc.discovered[e], data))
    /\ DiscUnchanged

\* Connection.discover.discovered_callback: creates the Connection and
\* schedules discovery_callback(conn).
DiscoveredCallback ==
    /\ disc.tasks # <<>> /\ Head(disc.tasks).cb = "discovered_cb"
    /\ disc' = [disc EXCEPT
                  !.tasks = Append(Tail(@),
                               [Head(@) EXCEPT !.cb = "discovery_callback"])]
    /\ DiscUnchanged

\* The collaborator's discovery_callback(conn).
UserDiscovered ==
    /\ disc.tasks # <<>> /\ Head(disc.tasks).cb = "discovery_callback"
    /\ disc' = [disc EXCEPT
                  !.tasks = Tail(@),
                  !.reported[Head(disc.tasks).id] = @ + 1]
    /\ DiscUnchanged

\* DiscoveryProtocol.async_close_delayed: the sleep of timeout seconds ends
\* and close() closes the transport.
CloseDelayed(e) ==
    /\ disc.closers[e] = "sleeping"
    /\ disc' = [disc EXCEPT !.closers[e] = "done", !.eps[e] = "closed"]
    /\ DiscUnchanged

(***************************************************************************)
(* Specifications.                                                         *)
(***************************************************************************)
MaxRetryIntervals == {0, 1, 2, 10}

NoLog == [failures |-> 0, losses |-> 0, api |-> 0, rx_raised |-> 0,
          sends |-> 0]

\* Connection.create(auto_reconnect, max_retry_interval, auto_connect): with
\* auto_connect the first pass of _reconnect has run and create is suspended
\* in it.
InitConn ==
    /\ retry_interval = Rat(1, 1)
    /\ closing = FALSE
    /\ halted = FALSE
    /\ auto_reconnect \in BOOLEAN
    /\ max_retry_interval \in MaxRetryIntervals
    /\ unexpected_disconnect = FALSE
    /\ buffer = <<>>
    /\ transport = 0
    /\ ready = <<>>
    /\ \E auto_connect \in BOOLEAN :
          /\ loops = IF auto_connect THEN [NoLoops EXCEPT !.connecting = 1]
                     ELSE NoLoops
          /\ created = ~auto_connect
    /\ conns = [t \in 1..MaxTransports |-> "none"]
    /\ paused = {}
    /\ wire = <<>>
    /\ frames = <<>>
    /\ delivered = <<>>
    /\ last = NoCall
    /\ slept = <<>>
    /\ log = NoLog
    /\ outage = NoOutage
    /\ written = <<>>
    /\ tx = NoTx
    /\ applied = NoApply
    /\ disc = NoDiscovery

NextConn ==
    \/ ConnectSucceeds
    \/ ConnectionMade
    \/ Waiter
    \/ LoopConnected
    \/ ProtoConnectCb
    \/ UserConnect
    \/ ConnectFails
    \/ BackoffWake
    \/ HaltWake
    \/ TaskStart
    \/ \E t \in 1..MaxTransports : PeerCloses(t)
    \/ ConnectionLost
    \/ DisconnectedCb
    \/ UserDisconnect
    \/ Close
    \/ Halt
    \/ Resume
    \/ Connect

SpecConn == InitConn /\ [][NextConn]_vars

\* A connected manager (auto-reconnect on) whose receiver has sent a stream
\* of frames that the socket has not delivered yet.
InitRx ==
    /\ retry_interval = Rat(1, 1)
    /\ closing = FALSE
    /\ halted = FALSE
    /\ auto_reconnect = TRUE
    /\ max_retry_interval = 10
    /\ unexpected_disconnect = FALSE
    /\ buffer = <<>>
    /\ transport = 1
    /\ ready = <<>>
    /\ loops = NoLoops
    /\ created = TRUE
    /\ conns = [t \in 1..MaxTransports |-> IF t = 1 THEN "open" ELSE "none"]
    /\ paused = {}
    /\ frames \in Streams
    /\ wire = StreamBytes(frames)
    /\ delivered = <<>>
    /\ last = NoCall
    /\ slept = <<>>
    /\ log = NoLog
    /\ outage = NoOutage
    /\ written = <<>>
    /\ tx = NoTx
    /\ applied = NoApply
    /\ disc = NoDiscovery

NextRx ==
    \/ \E t \in 1..MaxTransports : \E n \in 1..Len(wire) : DataReceived(t, n)
    \/ ProtoUpdate
    \/ UserUpdate
    \/ ConnectionLost
    \/ DisconnectedCb
    \/ TaskStart
    \/ ConnectSucceeds
    \/ ConnectionMade
    \/ Waiter
    \/ LoopConnected
    \/ ProtoConnectCb
    \/ UserConnect

SpecRx == InitRx /\ [][NextRx]_vars

\* A manager without auto-reconnect, created unconnected or connected, on
\* which commands are issued while the connection is lost, halted or closed.
InitTx ==
    /\ retry_interval = Rat(1, 1)
    /\ closing = FALSE
    /\ halted = FALSE
    /\ auto_reconnect = FALSE
    /\ max_retry_interval = 10
    /\ unexpected_disconnect = FALSE
    /\ buffer = <<>>
    /\ transport \in {0, 1}
    /\ ready = <<>>
    /\ loops = NoLoops
    /\ created = TRUE
    /\ conns = [t \in 1..MaxTransports |->
                   IF t = transport THEN "open" ELSE "none"]
    /\ paused = {}
    /\ wire = <<>>
    /\ frames = <<>>
    /\ delivered = <<>>
    /\ last = NoCall
    /\ slept = <<>>
    /\ log = NoLog
    /\ outage = NoOutage
    /\ written = <<>>
    /\ tx = NoTx
    /\ applied = NoApply
    /\ disc = NoDiscovery

NextTx ==
    \/ \E i \in DOMAIN CommandSpecs : Command(i)
    \/ \E t \in 1..MaxTransports : PeerCloses(t)
    \/ ConnectionLost
    \/ DisconnectedCb
    \/ UserDisconnect
    \/ Close
    \/ Halt

SpecTx == InitTx /\ [][NextTx]_vars

\* A connected manager, with and without auto-reconnect, that the
\* collaborator halts and resumes.
InitHalt ==
    /\ retry_interval = Rat(1, 1)
    /\ closing = FALSE
    /\ halted = FALSE
    /\ auto_reconnect \in BOOLEAN
    /\ max_retry_interval \in MaxRetryIntervals
    /\ unexpected_disconnect = FALSE
    /\ buffer = <<>>
    /\ transport = 1
    /\ ready = <<>>
    /\ loops = NoLoops
    /\ created = TRUE
    /\ conns = [t \in 1..MaxTransports |-> IF t = 1 THEN "open" ELSE "none"]
    /\ paused = {}
    /\ wire = <<>>
    /\ frames = <<>>
    /\ delivered = <<>>
    /\ last = NoCall
    /\ slept = <<>>
    /\ log = NoLog
    /\ outage = NoOutage
    /\ written = <<>>
    /\ tx = NoTx
    /\ applied = NoApply
    /\ disc = NoDiscovery

\* The end of a connection attempt.
ConnectEnds == ConnectSucceeds \/ ConnectFails

NextHalt ==
    \/ Halt
    \/ Resume
    \/ ConnectionLost
    \/ DisconnectedCb
    \/ UserDisconnect
    \/ TaskStart
    \/ HaltWake
    \/ BackoffWake
    \/ ConnectEnds
    \/ ConnectionMade
    \/ Waiter
    \/ LoopConnected
    \/ ProtoConnectCb
    \/ UserConnect

SpecHalt == InitHalt /\ [][NextHalt]_vars

\* The event loop runs every callback and task that is ready, every sleep
\* ends and every connection attempt ends.  Nothing obliges the collaborator
\* to call halt or resume.
FairHalt ==
    /\ WF_vars(ConnectionLost)
    /\ WF_vars(DisconnectedCb)
    /\ WF_vars(UserDisconnect)
    /\ WF_vars(TaskStart)
    /\ WF_vars(HaltWake)
    /\ WF_vars(BackoffWake)
    /\ WF_vars(ConnectEnds)
    /\ WF_vars(ConnectionMade)
    /\ WF_vars(Waiter)
    /\ WF_vars(LoopConnected)
    /\ WF_vars(ProtoConnectCb)
    /\ WF_vars(UserConnect)

SpecHaltFair == SpecHalt /\ FairHalt

\* Connection.create(auto_connect=True), suspended in the first pass of
\* _reconnect: nothing can call the manager before create has returned it.
InitCreate == InitConn /\ ~created

NextCreate ==
    \/ ConnectEnds
    \/ BackoffWake
    \/ ConnectionMade
    \/ Waiter
    \/ LoopConnected
    \/ ProtoConnectCb
    \/ UserConnect
    \/ \E t \in 1..MaxTransports : PeerCloses(t)
    \/ ConnectionLost
    \/ DisconnectedCb
    \/ UserDisconnect
    \/ TaskStart

SpecCreate == InitCreate /\ [][NextCreate]_vars

\* The event loop runs every callback and task that is ready, every sleep
\* ends and every connection attempt ends.  Nothing obliges the peer to
\* end a connection.
FairCreate ==
    /\ WF_vars(ConnectEnds)
    /\ WF_vars(BackoffWake)
    /\ WF_vars(ConnectionMade)
    /\ WF_vars(Waiter)
    /\ WF_vars(LoopConnected)
    /\ WF_vars(ProtoConnectCb)
    /\ WF_vars(UserConnect)
    /\ WF_vars(ConnectionLost)
    /\ WF_vars(DisconnectedCb)
    /\ WF_vars(UserDisconnect)
    /\ WF_vars(TaskStart)

SpecCreateFair == SpecCreate /\ FairCreate

\* The functions of the module applied to arguments of bounded size.
InitFn == InitTx /\ transport = 0

NextFn ==
    \/ \E msg \in MsgTexts : EncodePacket(msg)
    \/ ParseHeaderCall
    \/ \E text \in WireTexts : IscpToCommandCall(text)
    \/ \E call \in FnCalls : CommandToIscpCall(call)
    \/ TranslateBack
    \/ \E seen \in SeenLists : \E data \in Datagrams :
          DatagramReceivedCall(seen, data)

SpecFn == InitFn /\ [][NextFn]_vars

\* A session of Connection.discover on a manager of the class, for every
\* assignment of outcomes to the interface addresses.
InitDisc ==
    /\ retry_interval = Rat(1, 1)
    /\ closing = FALSE
    /\ halted = FALSE
    /\ auto_reconnect = FALSE
    /\ max_retry_interval = 10
    /\ unexpected_disconnect = FALSE
    /\ buffer = <<>>
    /\ transport = 0
    /\ ready = <<>>
    /\ loops = NoLoops
    /\ created = FALSE
    /\ conns = [t \in 1..MaxTransports |-> "none"]
    /\ paused = {}
    /\ wire = <<>>
    /\ frames = <<>>
    /\ delivered = <<>>
    /\ last = NoCall
    /\ slept = <<>>
    /\ log = NoLog
    /\ outage = NoOutage
    /\ written = <<>>
    /\ tx = NoTx
    /\ applied = NoApply
    /\ \/ \E kinds \in [Ifaces -> IfaceKinds] :
             disc = Discovery(kinds, FALSE)
       \/ \E kinds \in [Ifaces -> IfaceKinds \ {"nobroadcast"}] :
             disc = Discovery(kinds, TRUE)

NextDisc ==
    \/ DiscoverPass
    \/ \E e \in Ifaces : \E data \in Datagrams : \E addr \in Addrs :
          DatagramReceived(e, data, addr)
    \/ DiscoveredCallback
    \/ UserDiscovered
    \/ \E e \in Ifaces : CloseDelayed(e)

SpecDisc == InitDisc /\ [][NextDisc]_vars

\* The event loop runs every task that is ready, and every sleep ends.
FairDisc ==
    /\ WF_vars(DiscoverPass)
    /\ WF_vars(DiscoveredCallback)
    /\ WF_vars(UserDiscovered)
    /\ \A e \in Ifaces : WF_vars(CloseDelayed(e))

SpecDiscFair == SpecDisc /\ FairDisc

Spec == SpecConn

(***************************************************************************)
(* Properties of the receive path (SpecRx).                                *)
(***************************************************************************)
KindsOf(k) == {i \in DOMAIN FrameKinds : FrameKinds[i].kind = k}

FrameBytes(i) == FrameKinds[i].bytes

IsProtoUpdate(it) == it.cb = "proto_update"
IsUserUpdate(it) == it.cb = "user_update"

Msgs(q) == [i \in DOMAIN q |-> q[i].msg]

\* Messages passed to call_soon(update_callback) by data_received and not
\* yet run.
Scheduled(q) == Msgs(SelectSeq(q, IsProtoUpdate))

\* All update events emitted so far, oldest first.
Emitted ==
    delivered \o Msgs(SelectSeq(ready, IsUserUpdate)) \o Scheduled(ready)

\* The bytes handed to data_received in a step that reads the wire.
Chunk == SubSeq(wire, 1, Len(wire) - Len(wire'))

RECURSIVE EndOffset(_, _)
EndOffset(fs, i) ==
    IF i = 0 THEN 0 ELSE EndOffset(fs, i - 1) + Len(FrameBytes(fs[i]))

AllReceived == wire = <<>>

\* Number of bytes of the stream that data_received has been given.
Received == Len(StreamBytes(frames)) - Len(wire)

\* Number of frames of the stream whose bytes have all been received.
Complete ==
    CHOOSE i \in 0..Len(frames) :
        /\ EndOffset(frames, i) <= Received
        /\ \A j \in 0..Len(frames) : EndOffset(frames, j) <= Received => j <= i

RECURSIVE ValidEvents(_, _)
ValidEvents(fs, k) ==
    IF k = 0 THEN <<>>
    ELSE IF FrameKinds[fs[k]].kind = "valid"
         THEN Append(ValidEvents(fs, k - 1), FrameKinds[fs[k]].event)
         ELSE ValidEvents(fs, k - 1)

AllOfKinds(fs, ks) == \A i \in DOMAIN fs : FrameKinds[fs[i]].kind \in ks

\* C1: one chunk made of a frame with a corrupt header followed by a valid
\* frame schedules exactly one update event, the one of the valid frame,
\* discards the corrupt frame and returns normally.
C1_CorruptHeaderSkipped ==
    [][\A b \in KindsOf("badheader") : \A v \in KindsOf("valid") :
          (/\ buffer = <<>>
           /\ wire' # wire
           /\ Chunk = FrameBytes(b) \o FrameBytes(v))
          => /\ Scheduled(ready') = Scheduled(ready) \o <<FrameKinds[v].event>>
             /\ buffer' = <<>>
             /\ ~last'.raised]_vars

\* C2: one data_received call on an empty buffer whose chunk is two
\* complete valid frames schedules exactly their two update events, in the
\* order of the frames, and leaves the buffer empty.
C2_TwoFramesOneChunk ==
    [][\A v \in KindsOf("valid") : \A w \in KindsOf("valid") :
          (/\ buffer = <<>>
           /\ wire' # wire
           /\ Chunk = FrameBytes(v) \o FrameBytes(w))
          => /\ ready' = ready \o <<Item("proto_update", 0, FrameKinds[v].event),
                                    Item("proto_update", 0, FrameKinds[w].event)>>
             /\ buffer' = <<>>]_vars

C2_Witness ==
    /\ frames = <<1, 2>>
    /\ AllReceived
    /\ buffer = <<>>
    /\ last.emitted = 2
    /\ ready = <<Item("proto_update", 0, FrameKinds[1].event),
                 Item("proto_update", 0, FrameKinds[2].event)>>
    /\ delivered = <<>>

\* C3: for a stream of valid frames, however it is cut into chunks, the
\* update events emitted so far are exactly the events of the frames whose
\* 16 + data_size bytes have all been received, in stream order.
C3_OneEventPerFrameInOrder ==
    AllOfKinds(frames, {"valid"}) => Emitted = ValidEvents(frames, Complete)

C3_Witness ==
    /\ frames = <<2, 1>>
    /\ AllReceived
    /\ last.emitted = 1
    /\ delivered = <<FrameKinds[2].event, FrameKinds[1].event>>

\* Each payload that fails to decode is skipped by _assemble_buffer and the
\* valid frame behind it is processed in the same call.
BadPayloadsSkipped ==
    \A p \in BadPayloads : \A v \in KindsOf("valid") :
        AssembleBuffer(WireFrame(MAGIC, p) \o FrameBytes(v), <<>>)
            = [buffer |-> <<>>, out |-> <<FrameKinds[v].event>>,
               raised |-> FALSE]

\* C4: a complete frame with a valid header whose payload does not decode
\* or translate emits no event and is removed from the buffer, and the
\* frames behind it are processed: with no corrupt header in the stream,
\* the events emitted are those of the valid frames received completely and
\* the buffer holds exactly the bytes received after the last complete frame.
C4_BadPayloadDropped ==
    /\ (/\ AllOfKinds(frames, {"valid", "badpayload"})
        /\ ~AllOfKinds(frames, {"valid"}))
       => /\ Emitted = ValidEvents(frames, Complete)
          /\ buffer = SubSeq(StreamBytes(frames),
                             EndOffset(frames, Complete) + 1, Received)
    /\ BadPayloadsSkipped

C4_Witness ==
    /\ frames = <<4, 1>>
    /\ AllReceived
    /\ buffer = <<>>
    /\ last.emitted = 1
    /\ Len(delivered) + Len(ready) = 1
    /\ Emitted = <<FrameKinds[1].event>>

\* The frame !1PWR01 received from the wire is delivered as (main,
\* system-power, on).
PowerOnDelivered ==
    (/\ frames # <<>>
     /\ FrameBytes(frames[1]) = WireFrame(MAGIC, Utf8Encode(
            T(<<"!", "1", "P", "W", "R", "0", "1", "EOF", "CR", "LF">>)))
     /\ delivered # <<>>)
       => delivered[1] = Msg("main", "system-power", NamedValue(<<"on">>))

\* The wire text of the value with position v of the command with position
\* c of the zone with position zi translates to that zone, the name of the
\* command and the name of the value.
TranslatesBack(zi, c, v) ==
    LET cmd == COMMANDS[zi].cmds[c]
        val == cmd.values[v]
    IN  IscpToCommand(cmd.mn \o val.key) =
           Returns(Msg(COMMANDS[zi].zone, cmd.name, NamedValue(val.names)))

\* The declared values with a single name.
SingleNamed ==
    {e \in UNION {UNION {{<<zi, c, v>> :
                             v \in DOMAIN COMMANDS[zi].cmds[c].values} :
                         c \in DOMAIN COMMANDS[zi].cmds} :
                  zi \in DOMAIN COMMANDS} :
        LET val == COMMANDS[e[1]].cmds[e[2]].values[e[3]]
        IN  ~val.isRange /\ Len(val.names) = 1}

\* No zone before the zone with position zi declares the mnemonic of its
\* command with position c.
FirstDeclared(zi, c) ==
    \A zj \in 1..(zi - 1) :
        FindCmd(COMMANDS[zj].cmds, COMMANDS[zi].cmds[c].mn) = 0

\* C17 as stated: the wire text PWR01 translates to (main, system-power,
\* on), and a wire text made of a mnemonic declared in a zone and of a
\* declared value with a single name translates to that zone, the name of
\* the command and the name of the value.
C17_StatedWireToCommand ==
    /\ PowerOnDelivered
    /\ \A e \in SingleNamed : TranslatesBack(e[1], e[2], e[3])

\* C17: the wire text PWR01 translates to (main, system-power, on), and a
\* wire text made of a mnemonic declared in a zone, and in no zone before
\* it, and of a declared value with a single name translates to that zone,
\* the name of the command and the name of the value.
C17_WireToCommand ==
    /\ PowerOnDelivered
    /\ \A e \in SingleNamed :
          FirstDeclared(e[1], e[2]) => TranslatesBack(e[1], e[2], e[3])

C17_Witness ==
    /\ frames # <<>>
    /\ FrameBytes(frames[1]) = WireFrame(MAGIC, Utf8Encode(
           T(<<"!", "1", "P", "W", "R", "0", "1", "EOF", "CR", "LF">>)))
    /\ delivered = <<Msg("main", "system-power", NamedValue(<<"on">>))>>
    /\ AllReceived

\* C37: after every data_received call, whether it returned or raised, the
\* reading of the transport is resumed: no transport is left with reading
\* paused.
C37_ReadingResumed == paused = {}

(***************************************************************************)
(* Properties of the connection manager (SpecConn).                        *)
(***************************************************************************)
RatEq(a, b) == a.num * b.den = b.num * a.den

\* A step in which a TCP connect attempt starts.
AttemptStarts == loops'.connecting > loops.connecting

\* A step in which a coroutine of _reconnect runs a pass of its loop: the
\* task starts, a sleep ends, or connect() enters the loop.
PassRuns ==
    \/ loops'.scheduled < loops.scheduled
    \/ loops'.backoff < loops.backoff
    \/ loops'.haltsleep # loops.haltsleep
    \/ LoopCount(loops') > LoopCount(loops) /\ log'.api > log.api

\* C5: once close() has set the closing flag, no pass of the reconnect loop
\* starts a TCP connect attempt (calls of connect() by the collaborator
\* set aside).
C5_NoAttemptAfterClose ==
    [][(closing /\ log'.api = log.api) => ~AttemptStarts]_vars

\* C6: while the halted flag is set no TCP connect attempt starts, and a
\* pass of the reconnect loop only enters the fixed sleep and leaves the
\* retry interval unchanged; an attempt can start only when the flag is
\* clear.
C6_NoAttemptWhileHalted ==
    [][halted =>
         /\ ~AttemptStarts
         /\ PassRuns => /\ loops'.haltsleep = loops.haltsleep + 1
                        /\ retry_interval' = retry_interval
                        /\ slept' = slept]_vars

C6_Witness ==
    /\ halted
    /\ loops.haltsleep > 0
    /\ loops.connecting = 0
    /\ log.failures >= 1

\* The sequence of intervals the claim states, and the sequence the loop
\* sleeps (the interval is increased before it is slept).
StatedIntervals == <<Rat(1, 1), Rat(3, 2), Rat(9, 4), Rat(27, 8)>>

SleptIntervals == <<Rat(3, 2), Rat(9, 4), Rat(27, 8), Rat(81, 16)>>

\* C7 as stated: with cap 10 the intervals slept after the first four
\* consecutive failures are 1, 1.5, 2.25 and 3.375.
C7_StatedBackoffSequence ==
    max_retry_interval = 10 =>
        \A k \in DOMAIN slept :
            k <= 4 => RatEq(slept[k], StatedIntervals[k])

\* C7 amended: with cap 10 the intervals slept after the first four
\* consecutive failures are 1.5, 2.25, 3.375 and 5.0625, and after a
\* successful connect the next run of failures starts again from 1.5.
C7_BackoffSequence ==
    max_retry_interval = 10 =>
        /\ \A k \in DOMAIN slept :
              k <= 4 => RatEq(slept[k], SleptIntervals[k])
        /\ (loops.connecting > 0 /\ slept = <<>>) => retry_interval = Rat(1, 1)

C7_Witness ==
    /\ max_retry_interval = 10
    /\ Len(slept) = 4
    /\ retry_interval = Rat(81, 16)
    /\ loops.backoff > 0

\* C8: the interval slept in the back-off of the reconnect loop never
\* exceeds max_retry_interval.
C8_SleepCapped ==
    \A k \in DOMAIN slept : RatLeq(slept[k], Rat(max_retry_interval, 1))

C8_Witness ==
    /\ max_retry_interval = 2
    /\ Len(slept) >= 3
    /\ slept[1] = Rat(3, 2)
    /\ slept[Len(slept)] = Rat(2, 1)

\* C9: a step that changes the retry interval either is the return of a
\* successful connect, which sets it to 1, or increases it.
C9_IntervalOnlyGrows ==
    [][retry_interval' # retry_interval =>
         \/ /\ loops'.resuming < loops.resuming
            /\ retry_interval' = Rat(1, 1)
         \/ RatLess(retry_interval, retry_interval')]_vars

\* C10: in the outage that follows an unexpected disconnect, once a
\* reconnect attempt has failed the disconnect callback has been invoked
\* for it exactly once, whatever the number of failed attempts, and the
\* unexpected-disconnect flag is clear.
C10_OneCallbackPerOutage ==
    /\ outage.cbs <= 1
    /\ (outage.active /\ outage.fails >= 1)
          => outage.cbs = 1 /\ ~unexpected_disconnect
    /\ (outage.active /\ outage.fails = 0)
          => outage.cbs = 0 /\ unexpected_disconnect

C10_Witness ==
    /\ outage.active
    /\ outage.fails >= 3
    /\ outage.cbs = 1
    /\ Len(slept) >= 3

\* Number of invocations of the disconnect callback waiting in queue q.
Notices(q) == Cardinality({i \in DOMAIN q : q[i].cb = "user_disconnect"})

\* A step in which the event loop runs _disconnected_callback.
LossHandled ==
    /\ ready # <<>> /\ Head(ready).cb = "disconnected_cb"
    /\ ready' # ready
    /\ Len(ready') = Len(ready)
    /\ SubSeq(ready', 1, Len(ready) - 1) = Tail(ready)

\* C11: with auto-reconnect on and close() not called, the only step that
\* invokes the disconnect callback is a failed connect attempt made while
\* the unexpected-disconnect flag is set, and the flag is set only from an
\* unexpected disconnect until the next connection or failed attempt: the
\* loss itself, a successful attempt and a failure of the initial connect
\* invoke nothing.
C11_CallbackOnlyOnFailedReconnect ==
    [][(auto_reconnect /\ ~closing) =>
         /\ Notices(ready') > Notices(ready)
               => /\ log'.failures > log.failures
                  /\ unexpected_disconnect
                  /\ Notices(ready') = Notices(ready) + 1
         /\ unexpected_disconnect => outage.active /\ outage.fails = 0
         /\ LossHandled => Notices(ready') = Notices(ready)]_vars

C11_Witness ==
    /\ auto_reconnect /\ ~closing
    /\ Notices(ready) = 1
    /\ outage.active /\ outage.fails = 1 /\ outage.cbs = 1
    /\ log.losses = 1

\* C12: when connection loss is reported while closing is set or
\* auto-reconnect is off, the disconnect callback is invoked once for that
\* loss, the handler does not set the unexpected-disconnect flag and no
\* reconnect loop is started.
C12_DirectCallbackWhenClosingOrNoReconnect ==
    [][(LossHandled /\ (closing \/ ~auto_reconnect)) =>
         /\ ready' = Append(Tail(ready), Call("user_disconnect"))
         /\ unexpected_disconnect' = unexpected_disconnect
         /\ loops' = loops]_vars

C12_Witness ==
    /\ closing /\ auto_reconnect
    /\ Notices(ready) = 1
    /\ transport = 0
    /\ LoopCount(loops) = 0
    /\ ~unexpected_disconnect

\* Nothing of a connection exists: no transport, no coroutine of
\* _reconnect, no callback to run.
Idle ==
    /\ transport = 0
    /\ \A t \in DOMAIN conns : conns[t] = "none"
    /\ LoopCount(loops) = 0
    /\ ready = <<>>

\* C34: a manager that was created without auto_connect stays without a
\* connect attempt and without a transport until connect() is called,
\* which runs the first pass of the reconnect loop; and a call of the
\* manager starts a coroutine of _reconnect only while no transport is
\* attached (connect() with a transport attached starts none).
C34_NoAttemptUntilConnect ==
    [][/\ Idle /\ ~Idle' =>
            /\ log'.api = log.api + 1
            /\ loops' = EnterLoop(loops)
            /\ transport' = 0
       /\ log'.api = log.api + 1 /\ LoopCount(loops') > LoopCount(loops) =>
            transport = 0]_vars

C34_Witness ==
    /\ log.api = 1 /\ log.losses = 0 /\ log.failures = 0
    /\ loops.connecting = 1
    /\ transport = 0
    /\ \A t \in DOMAIN conns : conns[t] = "none"

\* C35: no transport becomes attached to the protocol while the halted
\* flag or the closing flag is set.
C35_NoAttachWhileHaltedOrClosing ==
    [][transport' # transport /\ transport' # 0 =>
          ~halted /\ ~closing]_vars

\* C36: at most one coroutine of _reconnect is alive and at most one TCP
\* connection is established at any time.
C36_OneLoopOneConnection ==
    /\ LoopCount(loops) <= 1
    /\ Cardinality({t \in DOMAIN conns :
                       conns[t] \in {"connected", "open"}}) <= 1

Commanded == log'.sends # log.sends

\* C13: a call of AVR.command whose command cannot be resolved writes
\* nothing to the transport and ends without an exception leaving it, for
\* the structured form, the assignment form and the free-text form.
C13_UnresolvedCommandIsSilent ==
    [][(Commanded /\ ~tx'.result.ok) =>
         /\ written' = written
         /\ tx'.outcome = "rejected"]_vars

\* C14: a call of AVR.command with a command that resolves, made while no
\* open transport is attached, writes nothing, raises nothing, and leaves
\* the flags, the retry interval, the receive buffer and the callbacks
\* scheduled on the loop as they were; only a call of command writes.
C14_SendWithoutTransportDropped ==
    [][/\ (Commanded /\ tx'.result.ok /\ ~TransportOpen) =>
            /\ written' = written
            /\ tx'.outcome = "dropped"
            /\ UNCHANGED <<connVars, buffer, transport, ready, loops, conns>>
       /\ written' # written => Commanded]_vars

C14_Witness ==
    /\ tx.outcome = "dropped"
    /\ tx.result.ok
    /\ transport = 0
    /\ written = <<>>
    /\ halted
    /\ log.sends = MaxSends

\* The call that the last AVR.command step made.
Sent == CommandSpecs[tx.spec]

SentIs(call) == tx.spec # 0 /\ Sent = call

\* C15: the structured call command("power", "on", "main"), the argument
\* being the text "on", resolves to the wire text PWR01.
C15_StructuredPowerOn ==
    SentIs(Call3(T(POWER), PyStr(T(<<"o", "n">>)), PyStr(ZONES[1])))
        => tx.result.ok /\ tx.result.text = T(<<"P", "W", "R", "0", "1">>)

\* h is n in uppercase hexadecimal, padded with zeros to two digits.
UpperHex2(h, n) ==
    /\ Len(h) >= 2
    /\ \A i \in DOMAIN h : h[i] \in (48..57) \cup (65..70)
    /\ HexNat(h) = n
    /\ Len(h) > 2 => h[1] # 48

\* The entry of VALUE_MAPPINGS for the volume of zone g.
VolumeEntry(g) ==
    LET mn == CommandPrefix(g, T(VOLUME))
    IN  VALUE_MAPPINGS[g][CHOOSE i \in DOMAIN VALUE_MAPPINGS[g] :
                              VALUE_MAPPINGS[g][i].mn = mn]

Declared(g, n) ==
    \E i \in DOMAIN VolumeEntry(g).args :
        /\ VolumeEntry(g).args[i].isRange
        /\ VolumeEntry(g).args[i].lo <= n
        /\ n <= VolumeEntry(g).args[i].hi

\* C16: a decimal argument n without alias that lies in a declared range
\* resolves to the mnemonic followed by n in uppercase hexadecimal with at
\* least two digits; "zone2.volume=66" resolves to ZVL42.
C16_DecimalArgumentAsHex ==
    /\ \A g \in 1..2 : \A k \in DOMAIN Volumes :
          (SentIs(VolumeCalls(ZONES[g])[k]) /\ Declared(g, Volumes[k])) =>
             /\ tx.result.ok
             /\ SubSeq(tx.result.text, 1, 3) = VolumeEntry(g).mn
             /\ UpperHex2(SubSeq(tx.result.text, 4, Len(tx.result.text)),
                          Volumes[k])
    /\ SentIs(TextCall(T(<<"z", "o", "n", "e", "2", ".", "v", "o", "l", "u",
                           "m", "e", "=", "6", "6">>)))
          => tx.result.text = T(<<"Z", "V", "L", "4", "2">>)

C16_Witness ==
    /\ SentIs(TextCall(UpdateProperty(ZONES[2], T(VOLUME), 66)))
    /\ written = <<command_to_packet(T(<<"Z", "V", "L", "4", "2">>))>>


\* Position r of args is a range that contains n, and no range before it
\* does.
FirstContaining(args, r, n) ==
    /\ r \in DOMAIN args
    /\ args[r].isRange /\ args[r].lo <= n /\ n <= args[r].hi
    /\ \A j \in 1..(r - 1) :
          ~(args[j].isRange /\ args[j].lo <= n /\ n <= args[j].hi)

\* C18: a numeric argument is resolved against the first range, in the
\* order the ranges are declared, that contains it: with (0,200), (0,100),
\* (0,80) declared in that order 55 is matched by (0,200), and the volume 55
\* of the main zone is matched by the declared range (0,200).
C18_FirstRangeInOrder ==
    /\ \A g \in 1..2 : \A k \in DOMAIN Volumes :
          (SentIs(VolumeCalls(ZONES[g])[k]) /\ Declared(g, Volumes[k])) =>
             FirstContaining(VolumeEntry(g).args, tx.result.range, Volumes[k])
    /\ SentIs(TextCall(UpdateProperty(ZONES[1], T(VOLUME), 55)))
          => VolumeEntry(1).args[tx.result.range] = ValueRange(0, 200)
    /\ ResolveArgument(T(<<"M", "V", "L">>),
                       <<ValueRange(0, 200), ValueRange(0, 100),
                         ValueRange(0, 80)>>,
                       T(<<"5", "5">>)).range = 1

C18_Witness ==
    /\ SentIs(TextCall(UpdateProperty(ZONES[1], T(VOLUME), 55)))
    /\ tx.result.ok
    /\ VolumeEntry(1).args[tx.result.range] = ValueRange(0, 200)
    /\ tx.outcome = "written"

\* C19: a numeric argument that is no alias and lies outside every declared
\* range fails with ValueError: there is no wire text and nothing is
\* written.
C19_OutOfRangeRejected ==
    [][\A g \in 1..2 : \A k \in DOMAIN Volumes :
          (/\ Commanded
           /\ CommandSpecs[tx'.spec] = VolumeCalls(ZONES[g])[k]
           /\ ~Declared(g, Volumes[k])) =>
             /\ tx'.result = Raises("ValueError")
             /\ tx'.outcome = "rejected"
             /\ written' = written]_vars

C19_Witness ==
    /\ SentIs(TextCall(T(<<"m", "a", "i", "n", ".", "v", "o", "l", "u", "m",
                           "e", "=", "9", "9", "9">>)))
    /\ tx.outcome = "rejected"
    /\ TransportOpen
    /\ written = <<>>


\* The text carried by the packet that the last command wrote.
WrittenText ==
    LET packet == written[Len(written)]
    IN  Utf8Decode(SubSeq(packet, HEADER_SIZE + 1, Len(packet)))

\* x has no "!", no EOF marker and no terminator.
PlainText(x) == \A i \in DOMAIN x : x[i] \notin {33, EOF} \cup TERMINATORS

Resolve(call) == command_to_iscp(call.command, call.arguments, call.zone)

\* Calls without a zone, each with the same call that names the zone main.
ZoneOmitted ==
    { <<TextCall(T(<<"p", "o", "w", "e", "r", "=", "o", "n">>)),
        TextCall(T(<<"m", "a", "i", "n", ".", "p", "o", "w", "e", "r", "=", "o", "n">>))>>,
      <<Call3(T(<<"p", "o", "w", "e", "r">>), PyList(<<T(<<"o", "n">>)>>), PyNone),
        Call3(T(<<"p", "o", "w", "e", "r">>), PyList(<<T(<<"o", "n">>)>>),
              PyStr(ZONES[1]))>> }

\* C23: a call that omits the zone, as the text "power=on" or as command
\* and arguments without zone, resolves in the zone main: its result is
\* that of the same call with the zone main, the wire text PWR01.
C23_OmittedZoneIsMain ==
    \A p \in ZoneOmitted :
        SentIs(p[1]) =>
           /\ tx.result = Resolve(p[2])
           /\ tx.result.text = T(<<"P", "W", "R", "0", "1">>)

\* Calls that differ from a resolvable call in the case of letters or in
\* an underscore for a hyphen, each with that call.
Respelled ==
    { <<TextCall(T(<<"P", "o", "w", "e", "r", "=", "O", "N">>)),
        TextCall(T(<<"p", "o", "w", "e", "r", "=", "o", "n">>))>>,
      <<TextCall(T(<<"s", "y", "s", "t", "e", "m", "_", "p", "o", "w", "e", "r", "=", "o", "n">>)),
        TextCall(T(<<"s", "y", "s", "t", "e", "m", "-", "p", "o", "w", "e", "r", "=", "o", "n">>))>>,
      <<Call3(T(<<"P", "O", "W", "E", "R">>), PyList(<<T(<<"o", "n">>)>>),
              PyStr(ZONES[1])),
        Call3(T(<<"p", "o", "w", "e", "r">>), PyList(<<T(<<"o", "n">>)>>),
              PyStr(ZONES[1]))>> }

\* C24: changing the case of letters, or an underscore for a hyphen, in
\* the zone, command or argument of a call does not change its result.
C24_NormalizationInvariant ==
    \A p \in Respelled : SentIs(p[1]) => tx.result = Resolve(p[2])

(***************************************************************************)
(* Halt and resume (SpecHaltFair).  The calls that change the manager are  *)
(* counted: on the connected manager of InitHalt the first is a halt and   *)
(* the second the resume that follows it.                                  *)
(***************************************************************************)
Resumed == log.api = 2 /\ ~halted

\* A connection attempt is running, or has ended in a failure or in a
\* connection.
AttemptStarted ==
    \/ loops.connecting > 0
    \/ loops.backoff > 0
    \/ loops.resuming > 0
    \/ TransportOpen

\* C27: after halt on a connected manager and a later resume, a connection
\* attempt is eventually started, with auto-reconnect enabled or disabled.
C27_ResumeStartsConnect == Resumed ~> AttemptStarted

(***************************************************************************)
(* Properties of the functions of the module (SpecFn).                     *)
(***************************************************************************)
\* C21: the data_size that parse_header reads from the first 16 bytes of
\* the packet of a message text is the number of UTF-8 bytes of the text,
\* which is the number of bytes that follow the header.
C21_DataSizeIsByteLength ==
    applied.fn = "parse_header" =>
       /\ applied.header.ok
       /\ applied.header.data_size = Len(Utf8Encode(applied.text))
       /\ applied.header.data_size = Len(applied.bytes) - HEADER_SIZE

\* iscp_to_command was applied to the mnemonic m followed by the remainder
\* r.
Translated(m, r) == applied.fn = "iscp_to_command" /\ applied.text = m \o r

\* The zones that declare the mnemonic m, by position.
Declaring(m) == {zi \in DOMAIN COMMANDS : FindCmd(COMMANDS[zi].cmds, m) # 0}

\* The entry of the mnemonic m in the first zone that declares it.
FirstEntry(m) ==
    LET zi == CHOOSE z \in Declaring(m) : \A y \in Declaring(m) : z <= y
    IN  [zone |-> COMMANDS[zi].zone,
         cmd |-> COMMANDS[zi].cmds[FindCmd(COMMANDS[zi].cmds, m)]]

\* The wire text r is a value that the command cmd declares with a name.
DeclaredNamed(cmd, r) ==
    \E v \in DOMAIN cmd.values :
        /\ ~cmd.values[v].isRange
        /\ cmd.values[v].key = r
        /\ cmd.values[v].names # <<>>

\* The names that the command cmd declares for the wire text r.
NamesOf(cmd, r) ==
    cmd.values[CHOOSE v \in DOMAIN cmd.values :
                  ~cmd.values[v].isRange /\ cmd.values[v].key = r].names

\* C28: the translation answers from the first zone, in the order of the
\* registry, that declares the mnemonic, with the name of that zone's
\* command and a value name only when that zone's command declares the
\* remainder; it raises ValueError exactly when no zone declares the
\* mnemonic, whatever the remainder.
C28_FirstDeclaringZoneAnswers ==
    \A m \in WireMnemonics : \A r \in WireRemainders :
        Translated(m, r) =>
           /\ (applied.result.err = "ValueError") <=> (Declaring(m) = {})
           /\ applied.result.ok =>
                 /\ Declaring(m) # {}
                 /\ applied.result.msg.zone = FirstEntry(m).zone
                 /\ applied.result.msg.name = FirstEntry(m).cmd.name
                 /\ applied.result.msg.value.t = "name" =>
                       DeclaredNamed(FirstEntry(m).cmd, r)

\* NTCPLAY is answered by zone2, whose NTC does not declare PLAY; the NTC
\* of dock, which declares it, is not consulted.
C28_Witness ==
    /\ Translated(T(<<"N", "T", "C">>), T(<<"P", "L", "A", "Y">>))
    /\ applied.result = Returns(Msg("zone2", "net-tune-network",
                                    RawValue(<<T(<<"P", "L", "A", "Y">>)>>)))

\* The text r is an optional sign followed by one or more hexadecimal
\* digits.
SignedHex(r) ==
    LET digits == IF r # <<>> /\ r[1] \in {43, 45} THEN Tail(r) ELSE r
    IN  /\ digits # <<>>
        /\ \A i \in DOMAIN digits :
              digits[i] \in (48..57) \cup (65..70) \cup (97..102)

\* The text without its commas.
Uncomma(r) == SelectSeq(r, LAMBDA c : c # 44)

\* C29: the remainder (a text of one line) is read as the name of a declared
\* value when the command declares it (PWR01 gives the name on, not the
\* integer 1), otherwise as an integer in base 16 when it is an optionally
\* signed hexadecimal number, otherwise as raw text, split on its commas.
C29_ValuePrecedence ==
    /\ \A m \in WireMnemonics : \A r \in WireRemainders :
          (/\ Translated(m, r)
           /\ applied.result.ok
           /\ \A i \in DOMAIN r : r[i] # 10) =>
             LET value == applied.result.msg.value
                 cmd == FirstEntry(m).cmd
             IN  IF DeclaredNamed(cmd, r)
                 THEN value = NamedValue(NamesOf(cmd, r))
                 ELSE IF SignedHex(r) THEN value.t = "int"
                 ELSE /\ value.t = "raw"
                      /\ Len(value.parts) = Len(r) - Len(Uncomma(r)) + 1
                      /\ Flatten(value.parts) = Uncomma(r)
    /\ Translated(T(<<"P", "W", "R">>), T(<<"0", "1">>)) =>
          applied.result.msg.value = NamedValue(<<"on">>)
    /\ Translated(T(<<"M", "V", "L">>), T(<<"0", "1">>)) =>
          applied.result.msg.value = IntValue(1)
    /\ Translated(T(<<"M", "V", "L">>), T(<<"1", "F">>)) =>
          applied.result.msg.value = IntValue(31)
    /\ Translated(T(<<"M", "V", "L">>), T(<<"-", "1", "F">>)) =>
          applied.result.msg.value = IntValue(0 - 31)
    /\ Translated(T(<<"M", "V", "L">>), T(<<"+", "a">>)) =>
          applied.result.msg.value = IntValue(10)
    /\ Translated(T(<<"M", "V", "L">>), T(<<"z", "z">>)) =>
          applied.result.msg.value = RawValue(<<T(<<"z", "z">>)>>)
    /\ Translated(T(<<"M", "V", "L">>), T(<<"a", ",", "b">>)) =>
          applied.result.msg.value = RawValue(<<T(<<"a">>), T(<<"b">>)>>)
    /\ Translated(T(<<"M", "V", "L">>), T(<<"1", ",", "2">>)) =>
          applied.result.msg.value = RawValue(<<T(<<"1">>), T(<<"2">>)>>)

\* A remainder of digits and a comma is returned as the tuple of its parts.
C29_Witness ==
    /\ Translated(T(<<"M", "V", "L">>), T(<<"1", ",", "2">>))
    /\ applied.result.ok
    /\ applied.result.msg.value.t = "raw"
    /\ Len(applied.result.msg.value.parts) = 2

\* The names joined by the separator sep.
RECURSIVE Joined(_, _)
Joined(names, sep) ==
    IF Len(names) = 1 THEN names[1]
    ELSE names[1] \o sep \o Joined(Tail(names), sep)

Separators == {",", "/", "-", "_", " ", "|", ""}

\* iscp_to_command was applied to a mnemonic and a remainder that the
\* command declares as a value with several names.
SeveralNames(m, r) ==
    /\ Translated(m, r)
    /\ Declaring(m) # {}
    /\ DeclaredNamed(FirstEntry(m).cmd, r)
    /\ Len(NamesOf(FirstEntry(m).cmd, r)) > 1

\* C30 as stated: a remainder that is a declared value with several names
\* (PWR00: standby, off) is returned as one name, the names of the value
\* joined by a separator.
C30_AliasesJoined ==
    \A m \in WireMnemonics : \A r \in WireRemainders :
        SeveralNames(m, r) =>
           /\ applied.result.ok
           /\ applied.result.msg.value.t = "name"
           /\ Len(applied.result.msg.value.names) = 1
           /\ \E sep \in Separators :
                 applied.result.msg.value.names[1] =
                    Joined(NamesOf(FirstEntry(m).cmd, r), sep)

\* C30: a remainder that is a declared value with several names (PWR00:
\* standby, off) is returned as the tuple of the names of the value, in
\* their declared order.
C30_AliasesAsTuple ==
    /\ \A m \in WireMnemonics : \A r \in WireRemainders :
          SeveralNames(m, r) =>
             /\ applied.result.ok
             /\ applied.result.msg.value.t = "name"
             /\ applied.result.msg.value.names = NamesOf(FirstEntry(m).cmd, r)
    /\ Translated(T(<<"P", "W", "R">>), T(<<"0", "0">>)) =>
          applied.result.msg.value.names = <<"standby", "off">>

C30_Witness ==
    /\ Translated(T(<<"P", "W", "R">>), T(<<"0", "0">>))
    /\ applied.result.ok
    /\ Len(applied.result.msg.value.names) = 2

\* The call made first was command_to_iscp(call).
Called(call) == applied.call = call

\* C31: the free text "zone command argument" resolves to the wire text
\* that "zone.command=argument" and command(command, [argument], zone)
\* resolve to.
C31_SpellingsAgree ==
    \A t \in Triples :
        Called(FreeText(t[1], t[2], t[3])) =>
            /\ applied.wire.ok
            /\ applied.wire.text = Resolve(Assignment(t[1], t[2], t[3])).text
            /\ applied.wire.text = Resolve(Structured(t[1], t[2], t[3])).text

\* C39: for every command with a declared numeric range and every integer
\* n of the range, negative ones included, command_to_iscp returns a wire
\* text for the decimal text of n.
C39_DeclaredRangeAccepted ==
    \A e \in DeclaredRanges :
        \A n \in RangeAt(e).lo..RangeAt(e).hi :
            Called(RangeCall(e, n)) => applied.wire.ok

\* C40: for every n in 0..200, command_to_iscp("main.volume=n") returns
\* and iscp_to_command of its result is ("main", "master-volume", n) with
\* the integer n.
C40_VolumeRoundTrip ==
    \A n \in 0..200 :
        Called(VolumeText(n)) =>
            /\ applied.wire.ok
            /\ applied.fn = "iscp_to_command" =>
                  applied.result =
                     Returns([zone |-> "main", name |-> "master-volume",
                              value |-> IntValue(n)])

C40_Witness ==
    /\ Called(VolumeText(200))
    /\ applied.fn = "iscp_to_command"
    /\ applied.result.msg.value = IntValue(200)

\* C33: a datagram that is not a discovery reply makes datagram_received
\* return without an exception, schedules no callback and leaves the
\* identifiers seen as they are.
C33_NonReplyIgnored ==
    applied.fn = "datagram_received" /\ ~ParseInfo(applied.bytes).matched =>
        /\ applied.handled.err = ""
        /\ applied.handled.scheduled = <<>>
        /\ applied.handled.discovered = applied.seen

(***************************************************************************)
(* Properties of the discovery (SpecDisc, SpecDiscFair).                   *)
(***************************************************************************)
\* C22: in a session of discover no identifier is passed to
\* discovery_callback more than once, whatever the source addresses and
\* the interfaces of the replies that carry it.
C22_OneCallbackPerIdentifier ==
    \A id \in Identifiers : disc.reported[id] <= 1

\* Tasks scheduled for the endpoint of interface e.
TasksOf(d, e) == {k \in DOMAIN d.tasks : d.tasks[k].ep = e}

\* C25: every endpoint that discover opens is closed in the end, whether
\* or not it received replies, and a closed endpoint stays closed, handles
\* no datagram and schedules no callback (the callbacks scheduled before
\* the close still run).
C25_EndpointsEventuallyClosed ==
    /\ \A e \in Ifaces : (disc.eps[e] = "open") ~> (disc.eps[e] = "closed")
    /\ [][\A e \in Ifaces : disc.eps[e] = "closed" =>
             /\ disc'.eps[e] = "closed"
             /\ disc'.discovered[e] = disc.discovered[e]
             /\ Cardinality(TasksOf(disc', e)) <= Cardinality(TasksOf(disc, e))
          ]_vars

\* C25 as stated: discovery_callback is not invoked for a reply of an
\* endpoint that is closed.
C25_NoCallbackAfterClose ==
    [][\A e \in Ifaces :
          (/\ disc.eps[e] = "closed"
           /\ disc.tasks # <<>>
           /\ Head(disc.tasks).ep = e) => disc'.reported = disc.reported]_vars

C25_Witness ==
    /\ \A e \in Ifaces : disc.eps[e] = "closed"
    /\ disc.discovered[1] # <<>>
    /\ disc.discovered[2] = <<>>
    /\ disc.replies = MaxReplies

\* C26: when the endpoint of an interface cannot be opened no error leaves
\* discover, and the endpoints of the interfaces after it are opened.
C26_BindFailureSkipped ==
    /\ ~disc.raised
    /\ disc.pos > MaxIfaces =>
          \A i \in Ifaces : disc.kinds[i] = "ok" =>
             disc.eps[i] \in {"open", "closed"}


\* The endpoint of interface i was opened by create_datagram_endpoint.
Opened(i) == disc.eps[i] \in {"open", "closed"}

\* C32: with a host every probe goes to (host, port); without one, the
\* interfaces that discover has passed have an endpoint attempted exactly
\* when they have a broadcast address, and every opened endpoint has sent
\* the packets of "!xECNQSTN" and "!pECNQSTN", in this order and nothing
\* else, to the target of its interface; no other endpoint sends.
C32_ProbesToTarget ==
    \A i \in DOMAIN disc.kinds :
        /\ disc.host =>
              \A k \in DOMAIN disc.sent[i] :
                  disc.sent[i][k].target = HostTarget
        /\ ~disc.host /\ i < disc.pos =>
              /\ disc.eps[i] = "none" <=> disc.kinds[i] = "nobroadcast"
              /\ disc.kinds[i] = "ok" => Opened(i)
        /\ Opened(i) =>
              disc.sent[i] =
                 << SendTo(XProbe, IF disc.host THEN HostTarget
                                   ELSE BroadcastTarget(i)),
                    SendTo(PProbe, IF disc.host THEN HostTarget
                                   ELSE BroadcastTarget(i)) >>
        /\ ~Opened(i) => disc.sent[i] = <<>>

C32_Witness ==
    /\ ~disc.host
    /\ \E i \in DOMAIN disc.kinds : \E j \in DOMAIN disc.kinds :
          /\ disc.kinds[i] = "nobroadcast" /\ i < disc.pos
          /\ Opened(j) /\ Len(disc.sent[j]) = 2

=============================================================================
